---- MODULE Spec2Model ----
(***************************************************************************)
(* Ingestion / synchronisation pipeline of the air-quality mirror:         *)
(* the upsert store (app/crud/openaq.py over app/models/openaq.py), the    *)
(* parameter resolver, the refresh worker and the scheduler tick           *)
(* (app/workers/schedular.py), the source client (app/services/openqq.py)  *)
(* and the historical backfill driver (backfill_historical.py).            *)
(*                                                                         *)
(* Conventions.  Python None / SQL NULL is the string "None" in string     *)
(* valued fields and the integer 0 in id fields (the code tests ids with   *)
(* `not x`, which is true of None and of 0 alike).  A float value v is     *)
(* written as the integer 10*v (18.5 is 185).  A timestamp string is a     *)
(* sequence of tokens, for instance <<"T1", "Z">> for an ISO instant T1    *)
(* spelled with a trailing Z.                                              *)
(***************************************************************************)
EXTENDS Integers, Sequences, FiniteSets, TLC

VARIABLES
    locations,      \* table "locations": a set of Location rows
    sensors,        \* table "sensors": a set of Sensor rows
    measurements,   \* table "measurements": rows in surrogate-id order
    sensor_cache,   \* schedular.py sensor_cache: sensor id -> parameter name
    upDetail,       \* upstream GET /sensors/{id}, per sensor
    upLatest,       \* upstream GET /locations/{id}/latest, per location
    upPages,        \* upstream GET /sensors/{id}/measurements, per sensor
    bf,             \* the backfill driver: its position and its locals
    wr,             \* two overlapping insert_measurement calls: position, locals
    sch,            \* the scheduler: its job, and the position of a running tick
    rf,             \* per caller, a refresh_latest_for_location in flight
    last,           \* history: the operation that ran last and its outcome
    hist            \* history: per sensor, the resolver's calls in this process

store == <<locations, sensors, measurements>>
upstream == <<upDetail, upLatest, upPages>>
vars == <<locations, sensors, measurements, sensor_cache, upDetail, upLatest,
          upPages, bf, wr, sch, rf, last, hist>>

None == "None"

(***************************************************************************)
(* Timestamps: datetime.fromisoformat(ts.replace("Z", "+00:00")).          *)
(***************************************************************************)
NoneTs == <<None>>
Instants == {"T1", "T2"}

\* str.replace("Z", "+00:00")
ReplaceZ(ts) == [i \in 1..Len(ts) |-> IF ts[i] = "Z" THEN "+00:00" ELSE ts[i]]

\* datetime.fromisoformat: an instant followed by an optional UTC offset;
\* anything else raises ValueError, rendered here as "ValueError".
FromIsoformat(s) ==
    IF Len(s) = 1 /\ s[1] \in Instants THEN s[1]
    ELSE IF Len(s) = 2 /\ s[1] \in Instants /\ s[2] = "+00:00" THEN s[1]
    ELSE "ValueError"

\* insert_measurement, lines 68-73: a str is parsed, a failed parse gives None,
\* a non-str (None) is kept.
ParseTs(ts) ==
    IF ts = NoneTs THEN None
    ELSE LET d == FromIsoformat(ReplaceZ(ts))
         IN  IF d = "ValueError" THEN None ELSE d

(***************************************************************************)
(* json.dumps(x) if x else None                                            *)
(***************************************************************************)
Falsy == {None, "{}"}
JsonDumps(x) == "json(" \o x \o ")"
DumpOrNone(x) == IF x \in Falsy THEN None ELSE JsonDumps(x)

(***************************************************************************)
(* The tables.  Primary keys (locations.id, sensors.id) and foreign keys   *)
(* (sensors.location_id, measurements.sensor_id, measurements.location_id) *)
(* are enforced by the database at commit; measurements has a surrogate    *)
(* autoincrement key only, and no uniqueness constraint on                 *)
(* (sensor_id, timestamp).                                                 *)
(***************************************************************************)
LocationIdsOf(locs) == {l.id : l \in locs}
SensorIdsOf(sens) == {s.id : s \in sens}

\* Mutant of FkOk: the foreign key is not enforced.
FkOff(id, ids) == TRUE

\* ForeignKey("locations.id") / ForeignKey("sensors.id"): NULL passes.
FkOk(id, ids) == id = 0 \/ id \in ids

(***************************************************************************)
(* upsert_location                                                         *)
(***************************************************************************)
\* lines 12-29: the row built from the provider's location dict.  A country
\* given as a dict is flattened to its name and code; one given as a string
\* is kept, with the code read from "country_code".
LocationPayload(loc) ==
    [id               |-> loc.id,
     name             |-> loc.name,
     country          |-> IF loc.country.isdict THEN loc.country.name
                          ELSE loc.country.str,
     country_code     |-> IF loc.country.isdict THEN loc.country.code
                          ELSE loc.country_code,
     latitude         |-> IF loc.coordinates = "{}" THEN None
                          ELSE "lat(" \o loc.coordinates \o ")",
     is_mobile        |-> IF loc.isMobile = "True" THEN "True" ELSE "False",
     last_measurement |-> loc.last_measurement,
     raw              |-> loc]

\* line 9 and line 43: query(...).filter(id == x).first()
QueryById(tbl, id) == {r \in tbl : r.id = id}

\* db.add(obj); db.commit(): the primary key rejects a second row with the id.
InsertRow(tbl, row) ==
    IF row.id \in {r.id : r \in tbl}
    THEN [ok |-> FALSE, tbl |-> tbl]
    ELSE [ok |-> TRUE, tbl |-> tbl \cup {row}]

\* setattr(obj, k, v) for every column; db.commit()
UpdateRow(tbl, obj, row) == [ok |-> TRUE, tbl |-> (tbl \ {obj}) \cup {row}]

\* Mutant of UpsertLocation: the row is added without looking for an
\* existing one.
UpsertLocationAddOnly(locs, loc) ==
    IF loc.coordinates = None THEN [ok |-> FALSE, tbl |-> locs]
    ELSE InsertRow(locs, LocationPayload(loc))

\* upsert_location(db, loc): ok = FALSE when the call raises (a "coordinates"
\* key holding None makes line 22 raise AttributeError before any write).
UpsertLocation(locs, loc) ==
    IF loc.coordinates = None THEN [ok |-> FALSE, tbl |-> locs]
    ELSE LET obj == QueryById(locs, loc.id)
             payload == LocationPayload(loc)
         IN  IF obj # {}
             THEN UpdateRow(locs, CHOOSE o \in obj : TRUE, payload)
             ELSE InsertRow(locs, payload)

(***************************************************************************)
(* upsert_sensor                                                           *)
(***************************************************************************)
\* lines 44-54: param = sensor.get("parameter") or {}.  A sensor dict whose
\* "parameter" is absent, None or {} is written with the record NoParameter.
NoParameter == [name |-> None, units |-> None]

SensorPayload(sensor, location_id) ==
    [id             |-> sensor.id,
     location_id    |-> location_id,
     name           |-> sensor.name,
     parameter_name |-> sensor.parameter.name,
     parameter_unit |-> sensor.parameter.units,
     raw            |-> sensor]

\* upsert_sensor(db, sensor, location_id): the commit fails when location_id
\* names no Location row (ForeignKey("locations.id")); line 42 raises for a
\* sensor dict whose "id" is None.
UpsertSensor(sens, locs, sensor, location_id) ==
    LET obj == QueryById(sens, sensor.id)
        payload == SensorPayload(sensor, location_id)
    IN  IF sensor.id = 0 \/ ~FkOk(location_id, LocationIdsOf(locs))
        THEN [ok |-> FALSE, tbl |-> sens]
        ELSE IF obj # {}
        THEN UpdateRow(sens, CHOOSE o \in obj : TRUE, payload)
        ELSE InsertRow(sens, payload)

(***************************************************************************)
(* insert_measurement                                                      *)
(***************************************************************************)
\* lines 77-85
MeasurementPayload(m) ==
    [sensor_id      |-> m.sensor_id,
     location_id    |-> m.location_id,
     timestamp      |-> ParseTs(m.timestamp),
     value          |-> m.value,
     coordinates    |-> DumpOrNone(m.coordinates),
     parameter_name |-> m.parameter_name,
     raw            |-> DumpOrNone(m.raw)]

\* Mutant of MatchingRows: the timestamp compared with SQL "=", under which
\* a NULL timestamp matches no row.
MatchingRowsSqlEq(rows, sensor_id, ts) ==
    {i \in 1..Len(rows) :
        rows[i].sensor_id = sensor_id /\ ts # None /\ rows[i].timestamp = ts}

\* line 75: the rows matching filter(sensor_id == sensor_id, timestamp == ts).
\* With ts None the ORM renders the comparison as "timestamp IS NULL", which
\* matches the rows stored with a NULL timestamp.
MatchingRows(rows, sensor_id, ts) ==
    {i \in 1..Len(rows) : rows[i].sensor_id = sensor_id /\ rows[i].timestamp = ts}

\* Mutant of QueryExisting: the lookup finds nothing.
QueryExistingNone(rows, m) == 0

\* line 75: .first(), 0 when nothing matches.  The query has no ORDER BY;
\* the row of lowest surrogate id is taken when several match.
QueryExisting(rows, m) ==
    LET hit == MatchingRows(rows, m.sensor_id, ParseTs(m.timestamp))
    IN  IF hit = {} THEN 0 ELSE CHOOSE i \in hit : \A j \in hit : i <= j

\* Mutant of WriteMeasurement: a found row is left alone and the payload is
\* added as a new row.
WriteMeasurementAppend(rows, sens, locs, m, existing) ==
    LET payload == MeasurementPayload(m)
    IN  IF ~FkOk(payload.sensor_id, SensorIdsOf(sens))
           \/ ~FkOk(payload.location_id, LocationIdsOf(locs))
        THEN [ok |-> FALSE, rows |-> rows]
        ELSE [ok |-> TRUE, rows |-> Append(rows, payload)]

\* lines 87-98 with the outcome `existing` of the query: overwrite every
\* column of the found row, or add a new row.  The commit fails on a
\* sensor_id or location_id that names no row.
WriteMeasurement(rows, sens, locs, m, existing) ==
    LET payload == MeasurementPayload(m)
    IN  IF ~FkOk(payload.sensor_id, SensorIdsOf(sens))
           \/ ~FkOk(payload.location_id, LocationIdsOf(locs))
        THEN [ok |-> FALSE, rows |-> rows]
        ELSE IF existing # 0
        THEN [ok |-> TRUE, rows |-> [rows EXCEPT ![existing] = payload]]
        ELSE [ok |-> TRUE, rows |-> Append(rows, payload)]

\* insert_measurement(db, m) on a session in the active state:
\* int(m["sensor_id"]) raises on a missing id.
InsertMeasurement(rows, sens, locs, m) ==
    IF m.sensor_id = 0 THEN [ok |-> FALSE, rows |-> rows]
    ELSE WriteMeasurement(rows, sens, locs, m, QueryExisting(rows, m))

\* Mutant of InsertMeasurementIn: a failed commit leaves the session active.
InsertMeasurementInRolledBack(db, rows, sens, locs, m) ==
    IF m.sensor_id = 0 THEN [ok |-> FALSE, rows |-> rows, db |-> db]
    ELSE IF db = "inactive" THEN [ok |-> FALSE, rows |-> rows, db |-> db]
    ELSE LET w == InsertMeasurement(rows, sens, locs, m)
         IN  [ok |-> w.ok, rows |-> w.rows, db |-> "active"]

\* insert_measurement(db, m) on the session state db ("active", or
\* "inactive" once a flush has failed).  No caller of insert_measurement
\* calls db.rollback(): when db.commit() fails at line 90 or 95 the
\* session's transaction is rolled back and stays inactive, and every
\* later statement on the session (the query of line 75 first) raises
\* until the session is closed.
InsertMeasurementIn(db, rows, sens, locs, m) ==
    IF m.sensor_id = 0 THEN [ok |-> FALSE, rows |-> rows, db |-> db]
    ELSE IF db = "inactive" THEN [ok |-> FALSE, rows |-> rows, db |-> db]
    ELSE LET w == InsertMeasurement(rows, sens, locs, m)
         IN  [ok |-> w.ok, rows |-> w.rows,
              db |-> IF w.ok THEN "active" ELSE "inactive"]

(***************************************************************************)
(* get_sensor_parameter_name                                               *)
(***************************************************************************)
\* What GET /sensors/{id} can give: a parameter name, a record without one
\* (None), or a failure ("error": a non-2xx status, a timeout, or an empty
\* "results" list, on which fetch_sensor_detail's [0] raises).
DetailOutcomes == {"pm25", "no2", None, "error"}

Cached(cache, sensor_id, name) == (sensor_id :> name) @@ cache

\* Mutant of GetSensorParameterName: a cached entry is replaced by the name
\* the sensors table holds, when it holds one.
GetSensorParameterNameRevalidate(db, cache, sens, detail, sensor_id) ==
    LET row == QueryById(sens, sensor_id)
        dbname == IF row = {} THEN None
                  ELSE (CHOOSE r \in row : TRUE).parameter_name
    IN  IF db = "active" /\ dbname # None
        THEN [name |-> dbname, cache |-> Cached(cache, sensor_id, dbname),
              tier |-> "db", fetched |-> FALSE]
        ELSE IF sensor_id \in DOMAIN cache
        THEN [name |-> cache[sensor_id], cache |-> cache, tier |-> "cache",
              fetched |-> FALSE]
        ELSE IF detail \in {None, "error"} \/ db = "inactive"
        THEN [name |-> "unknown",
              cache |-> Cached(cache, sensor_id, "unknown"),
              tier |-> "api", fetched |-> db = "active"]
        ELSE [name |-> detail, cache |-> Cached(cache, sensor_id, detail),
              tier |-> "api", fetched |-> TRUE]

\* Mutant of GetSensorParameterName: a failed or nameless lookup is answered
\* "unknown" without being written to the cache.
GetSensorParameterNameNoNegative(db, cache, sens, detail, sensor_id) ==
    IF sensor_id \in DOMAIN cache
    THEN [name |-> cache[sensor_id], cache |-> cache, tier |-> "cache",
          fetched |-> FALSE]
    ELSE IF db = "inactive"
    THEN [name |-> "unknown", cache |-> Cached(cache, sensor_id, "unknown"),
          tier |-> "error", fetched |-> FALSE]
    ELSE LET row == QueryById(sens, sensor_id)
             dbname == IF row = {} THEN None
                       ELSE (CHOOSE r \in row : TRUE).parameter_name
         IN  IF dbname # None
             THEN [name |-> dbname, cache |-> Cached(cache, sensor_id, dbname),
                   tier |-> "db", fetched |-> FALSE]
             ELSE IF detail \in {None, "error"}
             THEN [name |-> "unknown", cache |-> cache,
                   tier |-> "api", fetched |-> TRUE]
             ELSE [name |-> detail, cache |-> Cached(cache, sensor_id, detail),
                   tier |-> "api", fetched |-> TRUE]

\* Mutant of GetSensorParameterName: a name fetched from the provider is
\* returned without being written to the cache.
GetSensorParameterNameNoStore(db, cache, sens, detail, sensor_id) ==
    IF sensor_id \in DOMAIN cache
    THEN [name |-> cache[sensor_id], cache |-> cache, tier |-> "cache",
          fetched |-> FALSE]
    ELSE IF db = "inactive"
    THEN [name |-> "unknown", cache |-> Cached(cache, sensor_id, "unknown"),
          tier |-> "error", fetched |-> FALSE]
    ELSE LET row == QueryById(sens, sensor_id)
             dbname == IF row = {} THEN None
                       ELSE (CHOOSE r \in row : TRUE).parameter_name
         IN  IF dbname # None
             THEN [name |-> dbname, cache |-> Cached(cache, sensor_id, dbname),
                   tier |-> "db", fetched |-> FALSE]
             ELSE IF detail \in {None, "error"}
             THEN [name |-> "unknown",
                   cache |-> Cached(cache, sensor_id, "unknown"),
                   tier |-> "api", fetched |-> TRUE]
             ELSE [name |-> detail, cache |-> cache,
                   tier |-> "api", fetched |-> TRUE]

\* Mutant of GetSensorParameterName: on a cache miss the provider is asked
\* first, and the sensors table only when the provider gives no name.
GetSensorParameterNameApiFirst(db, cache, sens, detail, sensor_id) ==
    IF sensor_id \in DOMAIN cache
    THEN [name |-> cache[sensor_id], cache |-> cache, tier |-> "cache",
          fetched |-> FALSE]
    ELSE IF detail \notin {None, "error"}
    THEN [name |-> detail, cache |-> Cached(cache, sensor_id, detail),
          tier |-> "api", fetched |-> TRUE]
    ELSE LET row == QueryById(sens, sensor_id)
             dbname == IF row = {} \/ db = "inactive" THEN None
                       ELSE (CHOOSE r \in row : TRUE).parameter_name
         IN  IF dbname # None
             THEN [name |-> dbname, cache |-> Cached(cache, sensor_id, dbname),
                   tier |-> "db", fetched |-> TRUE]
             ELSE [name |-> "unknown",
                   cache |-> Cached(cache, sensor_id, "unknown"),
                   tier |-> "api", fetched |-> TRUE]

\* get_sensor_parameter_name(sensor_id, db) with the session state `db`,
\* the cache `cache`, the sensors table `sens` and the upstream answer
\* `detail` for this sensor.  name: the value returned; tier: where it came
\* from; fetched: whether fetch_sensor_detail was called.  On a session
\* whose transaction a failed flush has rolled back the query of line 31
\* raises; the except of line 55 caches and returns "unknown" (tier
\* "error").
GetSensorParameterName(db, cache, sens, detail, sensor_id) ==
    IF sensor_id \in DOMAIN cache
    THEN [name |-> cache[sensor_id], cache |-> cache, tier |-> "cache",
          fetched |-> FALSE]
    ELSE IF db = "inactive"
    THEN [name |-> "unknown", cache |-> Cached(cache, sensor_id, "unknown"),
          tier |-> "error", fetched |-> FALSE]
    ELSE LET row == QueryById(sens, sensor_id)
             dbname == IF row = {} THEN None
                       ELSE (CHOOSE r \in row : TRUE).parameter_name
         IN  IF dbname # None
             THEN [name |-> dbname, cache |-> Cached(cache, sensor_id, dbname),
                   tier |-> "db", fetched |-> FALSE]
             ELSE IF detail \in {None, "error"}
             THEN [name |-> "unknown",
                   cache |-> Cached(cache, sensor_id, "unknown"),
                   tier |-> "api", fetched |-> TRUE]
             ELSE [name |-> detail, cache |-> Cached(cache, sensor_id, detail),
                   tier |-> "api", fetched |-> TRUE]

(***************************************************************************)
(* History of the resolver, per sensor and per process lifetime:           *)
(* fetches: calls of fetch_sensor_detail; calls: calls of                  *)
(* get_sensor_parameter_name (1, or 2 for two or more); answers: the       *)
(* values returned; failed: a fetch raised or came without a name.         *)
(***************************************************************************)
NoHist == [fetches |-> 0, calls |-> 0, answers |-> {}, failed |-> FALSE]

Recorded(h, sensor_id, r, detail) ==
    [h EXCEPT ![sensor_id] =
        [fetches |-> @.fetches + (IF r.fetched THEN 1 ELSE 0),
         calls   |-> IF @.calls = 0 THEN 1 ELSE 2,
         answers |-> @.answers \cup {r.name},
         failed  |-> @.failed \/ (r.fetched /\ detail \in {None, "error"})]]

NoUpstream ==
    /\ upDetail = <<>>
    /\ upLatest = <<>>
    /\ upPages = <<>>

BackfillIdle == [pc |-> "idle"]
WritersIdle == <<>>

\* The callers of refresh_latest_for_location: the scheduler's thread (line
\* 143) and a request thread of the admin endpoint (routers/openaq.py line
\* 129).  No call is in flight.
Callers == {"tick", "admin"}

RefreshIdle == [pc |-> "idle"]

NoRefresh == [c \in Callers |-> RefreshIdle]

\* schedular.py line 16: the scheduler is constructed, not started, and has
\* no job.  pc is the position of the execution of refresh_all_locations.
NotStarted ==
    [pc |-> "idle", running |-> FALSE, armed |-> FALSE, instances |-> 0,
     fires |-> 0,
     started |-> 0, skipped |-> 0, locs |-> <<>>, i |-> 0, processed |-> 0,
     with_data |-> 0, error |-> FALSE, trace |-> <<>>]

(***************************************************************************)
(* refresh_latest_for_location                                             *)
(***************************************************************************)
\* One element of GET /locations/{id}/latest "results": sensorsId (0 when
\* absent), the "datetime" member (a dict holding utc, or not a dict), the
\* value and the coordinates.
LatestResult(sensorsId, isdict, utc, value) ==
    [sensorsId |-> sensorsId, datetime |-> [isdict |-> isdict, utc |-> utc],
     value |-> value, coordinates |-> "c1"]

\* lines 93-101: the measurement handed to insert_measurement.
LatestMeasurement(d, location_id, parameter_name) ==
    [sensor_id      |-> d.sensorsId,
     location_id    |-> location_id,
     timestamp      |-> d.datetime.utc,
     value          |-> d.value,
     coordinates    |-> d.coordinates,
     parameter_name |-> parameter_name,
     raw            |-> "latest"]

\* Mutant of ProcessResult: measurements_saved is incremented before the
\* insert, so a rejected insert is counted.
ProcessResultCountsFirst(st, d, location_id) ==
    IF d.sensorsId = 0 THEN st
    ELSE LET r == GetSensorParameterName(st.db, st.cache, sensors,
                                         upDetail[d.sensorsId], d.sensorsId)
             looked == [st EXCEPT !.cache = r.cache,
                                  !.hist = Recorded(st.hist, d.sensorsId, r,
                                                    upDetail[d.sensorsId])]
         IN  IF ~d.datetime.isdict THEN looked
             ELSE LET w == InsertMeasurementIn(
                               looked.db, looked.rows, sensors, locations,
                               LatestMeasurement(d, location_id, r.name))
                  IN  [looked EXCEPT !.rows = w.rows, !.db = w.db,
                                     !.saved = @ + 1]

\* lines 74-113, one pass of the loop body on result d.  st holds the
\* measurements table, the cache, the resolver history and
\* measurements_saved.  A result without sensor id is skipped; the parameter
\* name is resolved before the measurement dict is built, so a "datetime"
\* that is no dict raises after the lookup; any exception skips the result.
ProcessResult(st, d, location_id) ==
    IF d.sensorsId = 0 THEN st
    ELSE LET r == GetSensorParameterName(st.db, st.cache, sensors,
                                         upDetail[d.sensorsId], d.sensorsId)
             looked == [st EXCEPT !.cache = r.cache,
                                  !.hist = Recorded(st.hist, d.sensorsId, r,
                                                    upDetail[d.sensorsId])]
         IN  IF ~d.datetime.isdict THEN looked
             ELSE LET w == InsertMeasurementIn(
                               looked.db, looked.rows, sensors, locations,
                               LatestMeasurement(d, location_id, r.name))
                  IN  IF w.ok
                      THEN [looked EXCEPT !.rows = w.rows, !.saved = @ + 1]
                      ELSE [looked EXCEPT !.db = w.db]

\* Mutant of RefreshLoop: the loop ends at the first result that is not
\* saved.
RECURSIVE RefreshLoopAbort(_, _, _, _)
RefreshLoopAbort(st, results, i, location_id) ==
    IF i > Len(results) THEN st
    ELSE LET next == ProcessResult(st, results[i], location_id)
         IN  IF next.saved = st.saved THEN next
             ELSE RefreshLoopAbort(next, results, i + 1, location_id)

\* lines 73-113: the loop over latest_results from result i on.
RECURSIVE RefreshLoop(_, _, _, _)
RefreshLoop(st, results, i, location_id) ==
    IF i > Len(results) THEN st
    ELSE RefreshLoop(ProcessResult(st, results[i], location_id), results,
                     i + 1, location_id)

\* Mutant of RefreshLatestForLocation: an exception of the fetch reaches
\* the caller.
RefreshLatestForLocationRaises(st, location_id) ==
    LET resp == upLatest[location_id]
        start == [st EXCEPT !.saved = 0, !.db = "active"]
    IN  IF resp.status = "error"
        THEN [st |-> start, fetched |-> -1, ret |-> <<>>, raised |-> TRUE]
        ELSE IF resp.results = <<>>
        THEN [st |-> start, fetched |-> 0, ret |-> <<>>, raised |-> FALSE]
        ELSE [st |-> RefreshLoop(start, resp.results, 1, location_id),
              fetched |-> Len(resp.results), ret |-> <<>>, raised |-> FALSE]

\* refresh_latest_for_location(location_id) from the state st.  ret: the
\* value returned, <<>> for None and <<n>> for a number n (the function has
\* no return value on any path: line 70 is a bare return and the body ends
\* after the log lines 115-116).
\* fetched: len(latest_results), -1 when the fetch raised.  saved:
\* measurements_saved as logged at line 115 (0 when the loop is not
\* reached).  raised: an exception left the function.
RefreshLatestForLocation(st, location_id) ==
    LET resp == upLatest[location_id]
        start == [st EXCEPT !.saved = 0, !.db = "active"]
    IN  IF resp.status = "error"
        THEN [st |-> start, fetched |-> -1, ret |-> <<>>, raised |-> FALSE]
        ELSE IF resp.results = <<>>
        THEN [st |-> start, fetched |-> 0, ret |-> <<>>, raised |-> FALSE]
        ELSE [st |-> RefreshLoop(start, resp.results, 1, location_id),
              fetched |-> Len(resp.results), ret |-> <<>>, raised |-> FALSE]

(***************************************************************************)
(* refresh_all_locations                                                   *)
(***************************************************************************)
\* crud.get_locations(db, country_code="GH", limit=1000): the rows of the
\* country, by last_measurement descending (NULL first), at most `limit`.
\* Rows with equal last_measurement come in an order the query does not
\* fix: every order the ORDER BY allows is in the set.
LocationLimit == 1000

LastRank(lm) == IF lm = None THEN 2 ELSE IF lm = "L2" THEN 1 ELSE 0

Min(a, b) == IF a < b THEN a ELSE b

\* Mutant of GetLocations: the rows of every country.
GetLocationsAnyCountry(locs, country_code, limit) ==
    LET n == Cardinality(locs)
        sorted == {q \in [1..n -> locs] :
                      /\ \A i, j \in 1..n : i # j => q[i] # q[j]
                      /\ \A i, j \in 1..n :
                            i < j => LastRank(q[i].last_measurement)
                                       >= LastRank(q[j].last_measurement)}
    IN  {SubSeq(q, 1, Min(n, limit)) : q \in sorted}

GetLocations(locs, country_code, limit) ==
    LET match == {l \in locs : l.country_code = country_code}
        n == Cardinality(match)
        sorted == {q \in [1..n -> match] :
                      /\ \A i, j \in 1..n : i # j => q[i] # q[j]
                      /\ \A i, j \in 1..n :
                            i < j => LastRank(q[i].last_measurement)
                                       >= LastRank(q[j].last_measurement)}
    IN  {SubSeq(q, 1, Min(n, limit)) : q \in sorted}

\* lines 149-151: the count of measurements stored for the location.
MeasurementCount(rows, location_id) ==
    Cardinality({i \in 1..Len(rows) : rows[i].location_id = location_id})

\* lines 139-165 from location i on.  t holds the state handed from one
\* refresh to the next and the two counters of the tick; outcomes is the
\* history of the refreshes: what each fetched and saved.
RECURSIVE TickLoop(_, _, _)
TickLoop(t, locs, i) ==
    IF i > Len(locs) THEN t
    ELSE LET r == RefreshLatestForLocation(t.st, locs[i].id)
             count == MeasurementCount(r.st.rows, locs[i].id)
         IN  TickLoop([st |-> r.st,
                       processed |-> t.processed + 1,
                       with_data |-> t.with_data + (IF count > 0 THEN 1 ELSE 0),
                       visited |-> Append(t.visited, locs[i].id),
                       outcomes |-> Append(t.outcomes,
                                           [fetched |-> r.fetched,
                                            saved |-> r.st.saved])],
                      locs, i + 1)

\* refresh_all_locations() with `locs` the answer of get_locations.
RefreshAllLocations(st, locs) ==
    TickLoop([st |-> st, processed |-> 0, with_data |-> 0, visited |-> <<>>,
              outcomes |-> <<>>],
             locs, 1)

(***************************************************************************)
(* fetch_measurements_by_sensor and backfill_historical_measurements       *)
(***************************************************************************)
\* One element of GET /sensors/{id}/measurements "results".  period: its
\* datetimeFrom is a string ("str"), an object holding utc ("dict"), or
\* there is none ("none").  location: an object holding id, or not an
\* object, and then location_id is read (0 when absent).  parameter: an
\* object holding name, or not an object.
HistoricalResult(period, value, location, location_id, parameter) ==
    [period |-> period, value |-> value, location |-> location,
     location_id |-> location_id, parameter |-> parameter,
     coordinates |-> None]

\* services/openqq.py lines 51-69: one result in the shape the callers use.
TransformResult(result, sensor_id) ==
    [sensor_id      |-> sensor_id,
     location_id    |-> IF result.location.isdict THEN result.location.id
                        ELSE result.location_id,
     timestamp      |-> IF result.period.kind = "none" THEN NoneTs
                        ELSE result.period.utc,
     value          |-> result.value,
     parameter_name |-> IF result.parameter.isdict THEN result.parameter.name
                        ELSE "pm25",
     coordinates    |-> result.coordinates,
     raw            |-> "hist"]

\* fetch_measurements_by_sensor(sensor_id, page=...) on the answer resp.
FetchMeasurementsBySensor(resp, sensor_id) ==
    [i \in 1..Len(resp.results) |-> TransformResult(resp.results[i], sensor_id)]

\* The answer to the request of page `page`: the provider has the pages
\* `pages` and answers with an empty page past the last of them.
PageOf(pages, page) ==
    IF page \in DOMAIN pages THEN pages[page]
    ELSE [status |-> "ok", results |-> <<>>]

\* Mutant of BackfillRecord: total_saved is incremented before the insert.
BackfillRecordCountsFirst(st, m, sensor_id, location_id) ==
    LET data == [sensor_id      |-> sensor_id,
                 location_id    |-> IF m.location_id = 0 THEN location_id
                                    ELSE m.location_id,
                 timestamp      |-> m.timestamp,
                 value          |-> m.value,
                 parameter_name |-> m.parameter_name,
                 coordinates    |-> m.coordinates,
                 raw            |-> m.raw]
         w == InsertMeasurementIn(st.db, st.rows, sensors, locations, data)
    IN  IF w.ok
        THEN [rows |-> w.rows, db |-> w.db,
              page_saved |-> st.page_saved + 1,
              total_saved |-> st.total_saved + 1]
        ELSE [st EXCEPT !.db = w.db, !.total_saved = @ + 1]

\* backfill_historical.py lines 57-79, one pass of the inner loop on the
\* measurement m.  st holds the measurements table, the state of the run's
\* session, page_saved and total_saved.  A failed insert is logged and
\* skipped.
BackfillRecord(st, m, sensor_id, location_id) ==
    LET data == [sensor_id      |-> sensor_id,
                 location_id    |-> IF m.location_id = 0 THEN location_id
                                    ELSE m.location_id,
                 timestamp      |-> m.timestamp,
                 value          |-> m.value,
                 parameter_name |-> m.parameter_name,
                 coordinates    |-> m.coordinates,
                 raw            |-> m.raw]
         w == InsertMeasurementIn(st.db, st.rows, sensors, locations, data)
    IN  IF w.ok
        THEN [rows |-> w.rows, db |-> w.db,
              page_saved |-> st.page_saved + 1,
              total_saved |-> st.total_saved + 1]
        ELSE [st EXCEPT !.db = w.db]

\* The locals of a run of backfill_historical_measurements at its entry
\* (lines 22-32).  requested and pages_saved record the pages asked for and
\* the count logged at line 81 for each page; rows0 is the table as the run
\* found it; origin is the table as the first of a chain of interrupted and
\* restarted runs found it; batch holds the (sensor, location) pairs that
\* backfill_historical_pm25 has still to run, batch_saved its
\* total_saved_all.
BackfillRun(sensor_id, location_id, batch, in_batch, batch_saved, resumed, origin) ==
    [pc |-> "fetch", sensor_id |-> sensor_id, location_id |-> location_id,
     page |-> 1, total_saved |-> 0, measurements |-> <<>>, i |-> 1,
     page_saved |-> 0, db |-> "active", requested |-> <<>>,
     pages_saved |-> <<>>, rows0 |-> measurements, batch |-> batch,
     in_batch |-> in_batch, batch_saved |-> batch_saved,
     resumed |-> resumed, origin |-> origin]

\* lines 22-32: the driver is called for one sensor and enters its loop at
\* page 1.  A call that follows an interrupted run of the same sensor and
\* location is a re-run from page 1.
BackfillStart(sensor_id, location_id) ==
    LET resumed == /\ last.op = "interrupt"
                   /\ last.sensor_id = sensor_id
                   /\ last.location_id = location_id
    IN  /\ bf.pc = "idle"
        /\ bf' = BackfillRun(sensor_id, location_id, <<>>, FALSE, 0, resumed,
                             IF resumed THEN last.origin ELSE measurements)
        /\ last' = [op |-> "backfill_start"]
        /\ UNCHANGED <<store, sensor_cache, hist, upstream, wr, sch, rf>>

\* get_pm25_sensors_for_location, lines 10-20: the pm25 sensors of the
\* location, in any order (the query has no ORDER BY).
Pm25Sensors(sens, location_id) ==
    {x.id : x \in {y \in sens : y.location_id = location_id
                                  /\ y.parameter_name = "pm25"}}

Orderings(S) ==
    {q \in [1..Cardinality(S) -> S] :
        \A a, b \in 1..Cardinality(S) : a # b => q[a] # q[b]}

\* backfill_historical_pm25, lines 97-133, for one key location: the runs
\* it will make, one per pm25 sensor of the location.
BatchQueue(sens, location_id) ==
    {[k \in 1..Len(q) |-> <<q[k], location_id>>] :
        q \in Orderings(Pm25Sensors(sens, location_id))}

\* backfill_historical_pm25 is called: it starts the run of the first
\* sensor, or is through at once when the location has no pm25 sensor.
BackfillBatchStart(queue) ==
    /\ bf.pc = "idle"
    /\ IF queue = <<>>
       THEN /\ bf' = BackfillIdle
            /\ last' = [op |-> "batch", ret |-> 0]
       ELSE /\ bf' = BackfillRun(queue[1][1], queue[1][2], Tail(queue), TRUE,
                                 0, FALSE, measurements)
            /\ last' = [op |-> "backfill_start"]
    /\ UNCHANGED <<store, sensor_cache, hist, upstream, wr, sch, rf>>

\* The process running the driver is stopped (killed, or the machine goes
\* down) at any point of a run.  Every insert has committed its own
\* transaction, so the rows written so far stay.
BackfillInterrupt ==
    /\ bf.pc \in {"fetch", "save", "commit"}
    /\ bf' = BackfillIdle
    /\ last' = [op |-> "interrupt", sensor_id |-> bf.sensor_id,
                location_id |-> bf.location_id, origin |-> bf.origin,
                pages |-> Len(bf.pages_saved)]
    /\ UNCHANGED <<store, sensor_cache, hist, upstream, wr, sch, rf>>

\* lines 34-55 and 86-88: the page is requested; a failed request (the outer except)
\* or an empty page leaves the while loop; otherwise the inner loop starts
\* with page_saved = 0.
BackfillFetch ==
    /\ bf.pc = "fetch"
    /\ LET resp == PageOf(upPages[bf.sensor_id], bf.page)
           ms == FetchMeasurementsBySensor(resp, bf.sensor_id)
       IN  IF resp.status = "error" \/ ms = <<>>
           THEN bf' = [bf EXCEPT !.pc = "commit",
                                 !.requested = Append(@, bf.page)]
           ELSE bf' = [bf EXCEPT !.pc = "save", !.measurements = ms,
                                 !.i = 1, !.page_saved = 0,
                                 !.requested = Append(@, bf.page)]
    /\ last' = [op |-> "backfill_fetch"]
    /\ UNCHANGED <<store, sensor_cache, hist, upstream, wr, sch, rf>>

\* lines 56-79: one pass of the inner loop.
BackfillSave ==
    /\ bf.pc = "save"
    /\ bf.i <= Len(bf.measurements)
    /\ LET st == BackfillRecord([rows |-> measurements, db |-> bf.db,
                                 page_saved |-> bf.page_saved,
                                 total_saved |-> bf.total_saved],
                                bf.measurements[bf.i], bf.sensor_id,
                                bf.location_id)
       IN  /\ measurements' = st.rows
           /\ bf' = [bf EXCEPT !.i = @ + 1, !.db = st.db,
                               !.page_saved = st.page_saved,
                               !.total_saved = st.total_saved]
    /\ last' = [op |-> "backfill_save"]
    /\ UNCHANGED <<locations, sensors, sensor_cache, hist, upstream, wr, sch, rf>>

\* Mutant of BackfillNextPage: the page number advances at any point of the
\* inner loop.
BackfillNextPageEarly ==
    /\ bf.pc = "save"
    /\ bf' = [bf EXCEPT !.pc = "fetch", !.page = @ + 1,
                        !.pages_saved = Append(@, bf.page_saved)]
    /\ last' = [op |-> "backfill_page"]
    /\ UNCHANGED <<store, sensor_cache, hist, upstream, wr, sch, rf>>

\* lines 81-84: the inner loop is through; the page number advances.
BackfillNextPage ==
    /\ bf.pc = "save"
    /\ bf.i > Len(bf.measurements)
    /\ bf' = [bf EXCEPT !.pc = "fetch", !.page = @ + 1,
                        !.pages_saved = Append(@, bf.page_saved)]
    /\ last' = [op |-> "backfill_page"]
    /\ UNCHANGED <<store, sensor_cache, hist, upstream, wr, sch, rf>>

\* lines 90-92: db.commit() and return total_saved.  On a session that a
\* failed insert has left inactive db.commit() raises; the exception passes
\* the finally of line 94 and reaches the caller, and
\* backfill_historical_pm25 (lines 124-130, no try) passes it on: the runs
\* of the sensors still pending are not made.  Otherwise the total is
\* returned and a batch goes on to its next sensor.
\* failed_page: the last page requested failed.  pending: the runs the batch
\* had still to make.
BackfillReturn ==
    /\ bf.pc = "commit"
    /\ LET raised == bf.db = "inactive"
           resp == PageOf(upPages[bf.sensor_id], bf.page)
       IN  /\ last' = [op |-> "backfill", sensor_id |-> bf.sensor_id,
                       location_id |-> bf.location_id,
                       requested |-> bf.requested,
                       page_saved |-> bf.pages_saved,
                       ret |-> IF raised THEN <<>> ELSE <<bf.total_saved>>,
                       raised |-> raised,
                       changed |-> measurements # bf.rows0,
                       failed_page |-> resp.status = "error",
                       in_batch |-> bf.in_batch, pending |-> bf.batch,
                       resumed |-> bf.resumed, origin |-> bf.origin,
                       rows0 |-> bf.rows0]
           /\ IF raised \/ bf.batch = <<>>
              THEN bf' = BackfillIdle
              ELSE bf' = BackfillRun(bf.batch[1][1], bf.batch[1][2],
                                     Tail(bf.batch), TRUE,
                                     bf.batch_saved + bf.total_saved, FALSE,
                                     measurements)
    /\ UNCHANGED <<store, sensor_cache, hist, upstream, wr, sch, rf>>

(***************************************************************************)
(* Direct calls of insert_measurement on a store that holds location 42    *)
(* and sensor 7 (sensor 9 and location 43 are unknown to the store).       *)
(***************************************************************************)
Ghana == [isdict |-> TRUE, name |-> "Ghana", code |-> "GH", str |-> None]

LocationDict(id, country, last_measurement) ==
    [id |-> id, name |-> "site", country |-> country, country_code |-> None,
     coordinates |-> "c1", isMobile |-> None,
     last_measurement |-> last_measurement]

SensorDict(id, parameter_name) ==
    [id |-> id, name |-> "sensor",
     parameter |-> [name |-> parameter_name, units |-> "ug/m3"]]

TsInputs ==
    {<<"T1", "Z">>, <<"T1", "+00:00">>, <<"T2", "Z">>, <<"not a date">>, NoneTs}

MeasurementInputs ==
    [sensor_id      : {7, 9},
     location_id    : {42},
     timestamp      : TsInputs,
     value          : {185, 200},
     coordinates    : {"c1"},
     parameter_name : {"pm25"},
     raw            : {"latest"}]
    \cup
    [sensor_id      : {7},
     location_id    : {0, 43},
     timestamp      : {<<"T1", "Z">>},
     value          : {185},
     coordinates    : {"{}"},
     parameter_name : {"unknown"},
     raw            : {"{}"}]

InitInsert ==
    /\ locations = {LocationPayload(LocationDict(42, Ghana, None))}
    /\ sensors = {SensorPayload(SensorDict(7, "pm25"), 42)}
    /\ measurements = <<>>
    /\ sensor_cache = <<>>
    /\ hist = <<>>
    /\ NoUpstream
    /\ bf = BackfillIdle
    /\ wr = WritersIdle
    /\ sch = NotStarted
    /\ rf = NoRefresh
    /\ last = [op |-> "init"]

\* One call insert_measurement(db, m).  rerun: the call before was the same
\* call and returned.
InsertStep(m) ==
    LET r == InsertMeasurement(measurements, sensors, locations, m)
    IN  /\ measurements' = r.rows
        /\ last' = [op |-> "insert", m |-> m, ok |-> r.ok,
                    rerun |-> last.op = "insert" /\ last.ok /\ last.m = m]
        /\ UNCHANGED <<locations, sensors, sensor_cache, hist, upstream, bf, wr, sch, rf>>

NextInsert == \E m \in MeasurementInputs : InsertStep(m)

SpecInsert == InitInsert /\ [][NextInsert]_vars

\* C1: after insert_measurement(r) has returned twice in a row on any store,
\* exactly one stored row has the key (r.sensor_id, parsed r.timestamp) and
\* all its columns are those of the second call's payload.
C1_TwiceOneRecord ==
    (last.op = "insert" /\ last.rerun /\ last.ok) =>
        LET hit == MatchingRows(measurements, last.m.sensor_id,
                                ParseTs(last.m.timestamp))
        IN  /\ Cardinality(hit) = 1
            /\ \A i \in hit : measurements[i] = MeasurementPayload(last.m)

C1_Witness ==
    /\ last.op = "insert" /\ last.rerun /\ last.ok
    /\ Len(measurements) >= 2
    /\ ParseTs(last.m.timestamp) = None

(***************************************************************************)
(* Two upserts of records of sensor 7 in both orders, from the same table. *)
(* The records are those the two ingestion paths build for sensor 7: the   *)
(* scheduler's (raw "latest", coordinates) and the backfill's (raw "hist", *)
(* no coordinates), for the instants T1 and T2 and for no timestamp.       *)
(***************************************************************************)
PairInputs ==
    {LatestMeasurement(LatestResult(7, TRUE, <<"T1", "Z">>, 185), 42, "pm25"),
     LatestMeasurement(LatestResult(7, TRUE, <<"T2", "Z">>, 200), 42, "pm25"),
     LatestMeasurement(LatestResult(7, TRUE, <<"not a date">>, 200), 42,
                       "pm25"),
     [TransformResult(
          HistoricalResult([kind |-> "dict", utc |-> <<"T1", "Z">>], 185,
                           [isdict |-> TRUE, id |-> 42], 0,
                           [isdict |-> TRUE, name |-> "pm25"]), 7)
      EXCEPT !.location_id = 42],
     [TransformResult(
          HistoricalResult([kind |-> "none", utc |-> NoneTs], 210,
                           [isdict |-> TRUE, id |-> 42], 0,
                           [isdict |-> TRUE, name |-> "pm25"]), 7)
      EXCEPT !.location_id = 42]}

\* insert_measurement(db, a) and then insert_measurement(db, b).
InsertBoth(rows, a, b) ==
    InsertMeasurement(InsertMeasurement(rows, sensors, locations, a).rows,
                      sensors, locations, b)

\* The two calls are made; swapped records what the two calls in the other
\* order give from the same table.
PairStep(a, b) ==
    LET r == InsertBoth(measurements, a, b)
    IN  /\ measurements' = r.rows
        /\ last' = [op |-> "pair", a |-> a, b |-> b, ok |-> r.ok,
                    swapped |-> InsertBoth(measurements, b, a).rows]
        /\ UNCHANGED <<locations, sensors, sensor_cache, hist, upstream, bf, wr, sch, rf>>

NextPair == \E a, b \in PairInputs : PairStep(a, b)

SpecPair == InitInsert /\ [][NextPair]_vars

RowSet(rows) == {rows[i] : i \in 1..Len(rows)}

\* C16: the two upserts of a pair of records of one sensor leave the same
\* rows in the table whichever of the two is made first.
C16_Commute ==
    last.op = "pair" => RowSet(measurements) = RowSet(last.swapped)

\* The same for two records with different keys, or with equal payloads.
CommuteDistinct ==
    (/\ last.op = "pair"
     /\ \/ ParseTs(last.a.timestamp) # ParseTs(last.b.timestamp)
        \/ MeasurementPayload(last.a) = MeasurementPayload(last.b))
    => RowSet(measurements) = RowSet(last.swapped)

(***************************************************************************)
(* Direct calls of upsert_location and upsert_sensor on an empty store.    *)
(***************************************************************************)
Togo == [isdict |-> TRUE, name |-> "Togo", code |-> "TG", str |-> None]
GhanaStr == [isdict |-> FALSE, name |-> None, code |-> None, str |-> "Ghana"]

LocationInputs ==
    [id : {42, 43}, name : {"site"}, country : {Ghana, GhanaStr},
     country_code : {"GH"}, coordinates : {"c1"}, isMobile : {None},
     last_measurement : {None}]
    \cup
    [id : {42, 43}, name : {"moved"}, country : {Togo},
     country_code : {None}, coordinates : {"{}", None}, isMobile : {"True"},
     last_measurement : {"L1"}]

SensorInputs ==
    [id : {7, 8}, name : {"sensor"},
     parameter : {[name |-> "pm25", units |-> "ug/m3"], NoParameter}]

InitMeta ==
    /\ locations = {}
    /\ sensors = {}
    /\ measurements = <<>>
    /\ sensor_cache = <<>>
    /\ hist = <<>>
    /\ NoUpstream
    /\ bf = BackfillIdle
    /\ wr = WritersIdle
    /\ sch = NotStarted
    /\ rf = NoRefresh
    /\ last = [op |-> "init"]

\* rerun: the call before was the same call with the same arguments, and
\* it returned.
\* changed: this call left a table different from what it found.
UpsertLocationStep(loc) ==
    LET r == UpsertLocation(locations, loc)
    IN  /\ locations' = r.tbl
        /\ last' = [op |-> "upsert_location", arg |-> <<loc>>, ok |-> r.ok,
                    rerun |-> last.op = "upsert_location" /\ last.ok
                              /\ last.arg = <<loc>>,
                    changed |-> r.tbl # locations]
        /\ UNCHANGED <<sensors, measurements, sensor_cache, hist, upstream, bf, wr, sch, rf>>

UpsertSensorStep(sensor, location_id) ==
    LET r == UpsertSensor(sensors, locations, sensor, location_id)
    IN  /\ sensors' = r.tbl
        /\ last' = [op |-> "upsert_sensor", arg |-> <<sensor, location_id>>,
                    ok |-> r.ok,
                    rerun |-> last.op = "upsert_sensor" /\ last.ok
                              /\ last.arg = <<sensor, location_id>>,
                    changed |-> r.tbl # sensors]
        /\ UNCHANGED <<locations, measurements, sensor_cache, hist, upstream, bf,
                       wr, sch, rf>>

NextMeta ==
    \/ \E loc \in LocationInputs : UpsertLocationStep(loc)
    \/ \E sensor \in SensorInputs, l \in {42, 43} : UpsertSensorStep(sensor, l)

SpecMeta == InitMeta /\ [][NextMeta]_vars

OnePerId(tbl) == \A a, b \in tbl : a.id = b.id => a = b

\* C9: after any sequence of upsert_location and upsert_sensor calls there is
\* at most one Location row per id and one Sensor row per id, and a call
\* repeated with the input of a call that returned also returns and leaves
\* the tables as it found them.
C9_UpsertIdempotent ==
    /\ OnePerId(locations)
    /\ OnePerId(sensors)
    /\ (last.op \in {"upsert_location", "upsert_sensor"} /\ last.rerun) =>
           (last.ok /\ ~last.changed)

C9_Witness ==
    /\ last.op = "upsert_sensor" /\ last.rerun /\ last.ok
    /\ Cardinality(sensors) = 2
    /\ Cardinality(locations) = 2

(***************************************************************************)
(* Direct calls of get_sensor_parameter_name in one process, while the     *)
(* upstream answer and the sensors table change between the calls.         *)
(* Sensor 8 is stored without a parameter name until another writer gives *)
(* it one; sensor 9 is not in the store until another writer adds it.      *)
(***************************************************************************)
ResolveIds == {8, 9}

InitResolve ==
    /\ locations = {LocationPayload(LocationDict(42, Ghana, None))}
    /\ sensors = {SensorPayload(SensorDict(7, "pm25"), 42),
                  SensorPayload(SensorDict(8, None), 42)}
    /\ measurements = <<>>
    /\ sensor_cache = <<>>
    /\ hist = [s \in ResolveIds |-> NoHist]
    /\ upDetail \in [ResolveIds -> DetailOutcomes]
    /\ upLatest = <<>>
    /\ upPages = <<>>
    /\ bf = BackfillIdle
    /\ wr = WritersIdle
    /\ sch = NotStarted
    /\ rf = NoRefresh
    /\ last = [op |-> "init"]

\* cold: what the same call returns when sensor_cache has been cleared.
ResolveStep(sensor_id, db) ==
    LET r == GetSensorParameterName(db, sensor_cache, sensors,
                                    upDetail[sensor_id], sensor_id)
    IN  /\ sensor_cache' = r.cache
        /\ hist' = Recorded(hist, sensor_id, r, upDetail[sensor_id])
        /\ last' = [op |-> "resolve", sensor_id |-> sensor_id,
                    name |-> r.name, tier |-> r.tier, fetched |-> r.fetched,
                    nth |-> hist'[sensor_id].calls, db |-> db,
                    hit |-> sensor_id \in DOMAIN sensor_cache,
                    cached |-> sensor_id \in DOMAIN r.cache
                               /\ r.cache[sensor_id] = r.name,
                    cold |-> GetSensorParameterName(db, <<>>, sensors,
                                                    upDetail[sensor_id],
                                                    sensor_id).name]
        /\ UNCHANGED <<store, upstream, bf, wr, sch, rf>>

\* The provider starts to answer differently for one sensor.
DetailChanges(sensor_id, outcome) ==
    /\ upDetail[sensor_id] # outcome
    /\ upDetail' = [upDetail EXCEPT ![sensor_id] = outcome]
    /\ last' = [op |-> "upstream"]
    /\ UNCHANGED <<store, sensor_cache, hist, upLatest, upPages, bf, wr, sch, rf>>

\* Another writer (backfill_locations) upserts a sensor of location 42.
SensorChanges(sensor) ==
    LET r == UpsertSensor(sensors, locations, sensor, 42)
    IN  /\ r.tbl # sensors
        /\ sensors' = r.tbl
        /\ last' = [op |-> "upsert_sensor", ok |-> r.ok]
        /\ UNCHANGED <<locations, measurements, sensor_cache, hist, upstream, bf,
                       wr, sch, rf>>

NextResolve ==
    \/ \E s \in ResolveIds, db \in {"active", "inactive"} : ResolveStep(s, db)
    \/ \E s \in ResolveIds, o \in DetailOutcomes : DetailChanges(s, o)
    \/ \E s \in {SensorDict(8, "no2"), SensorDict(9, None)} : SensorChanges(s)

SpecResolve == InitResolve /\ [][NextResolve]_vars

InStore(sensor_id) == QueryById(sensors, sensor_id) # {}

\* C4: for a sensor with no row in the sensors table, the calls of
\* get_sensor_parameter_name made so far in this process have called
\* fetch_sensor_detail at most once in total, have all returned the same
\* value, and every call after the first was answered from sensor_cache.
C4_FetchAtMostOnce ==
    \A s \in ResolveIds :
        ~InStore(s) =>
            /\ hist[s].fetches <= 1
            /\ Cardinality(hist[s].answers) <= 1
            /\ (last.op = "resolve" /\ last.sensor_id = s /\ last.nth = 2) =>
                   (last.tier = "cache" /\ ~last.fetched)

C4_Witness ==
    /\ last.op = "resolve" /\ last.sensor_id = 9 /\ last.nth = 2
    /\ ~InStore(9)
    /\ hist[9].fetches = 1
    /\ last.name = "no2"
    /\ upDetail[9] = "pm25"

\* C5: once fetch_sensor_detail has raised or answered without a parameter
\* name for a sensor, that call and every later call of
\* get_sensor_parameter_name for the sensor in this process return
\* "unknown", and fetch_sensor_detail is not called for it again.
C5_NegativeCaching ==
    \A s \in ResolveIds :
        hist[s].failed =>
            /\ hist[s].answers = {"unknown"}
            /\ hist[s].fetches = 1
            /\ s \in DOMAIN sensor_cache /\ sensor_cache[s] = "unknown"

C5_Witness ==
    /\ last.op = "resolve" /\ last.sensor_id = 8 /\ last.nth = 2
    /\ hist[8].failed
    /\ upDetail[8] = "pm25"
    /\ last.name = "unknown"

\* The parameter name the sensors table holds for the sensor, None when it
\* has no row or the row has no name.
StoreName(sensor_id) ==
    IF InStore(sensor_id)
    THEN (CHOOSE r \in QueryById(sensors, sensor_id) : TRUE).parameter_name
    ELSE None

\* C17: a call of get_sensor_parameter_name that finds the sensor in
\* sensor_cache consults nothing else; the sensors table is queried only on
\* a cache miss; fetch_sensor_detail is called only on a cache miss with no
\* non-empty parameter name in the sensors table; and a name found in the
\* table or fetched from the provider is in sensor_cache when the call
\* returns it.
C17_TierOrder ==
    last.op = "resolve" =>
        /\ last.hit => (last.tier = "cache" /\ ~last.fetched)
        /\ last.tier \in {"db", "api", "error"} => ~last.hit
        /\ last.fetched =>
               (last.tier = "api" /\ StoreName(last.sensor_id) = None)
        /\ last.tier = "db" =>
               (~last.fetched /\ last.name = StoreName(last.sensor_id))
        /\ last.tier \in {"db", "api"} => last.cached

\* A first call for sensor 8 of the store fetched its name from the
\* provider, the table holding the row without a name.
C17_Witness ==
    /\ last.op = "resolve" /\ last.sensor_id = 8 /\ last.nth = 1
    /\ InStore(8) /\ StoreName(8) = None
    /\ last.tier = "api" /\ last.name = "no2" /\ last.cached

\* A first call was answered from the sensors table.
C17_WitnessStore ==
    /\ last.op = "resolve" /\ last.tier = "db" /\ last.name = "no2"
    /\ last.cached

(***************************************************************************)
(* Scheduler ticks and admin refreshes, one after another, against an      *)
(* upstream that keeps answering the same.  The store knows locations 42   *)
(* and 44 (Ghana) and 43 (Togo), sensor 7 of location 42 with its          *)
(* parameter name and sensor 8 of location 44 without one; sensor 9 and    *)
(* location 45 are unknown to it.  The measurements table starts empty or  *)
(* with one row that an earlier run has stored.                            *)
(***************************************************************************)
MaxBatch == 2

Ok(results) == [status |-> "ok", results |-> results]
Failure == [status |-> "error", results |-> <<>>]

SeqsUpTo(S, n) == UNION {[1..k -> S] : k \in 0..n}

LatestResults ==
    {LatestResult(7, TRUE, <<"T1", "Z">>, 185),
     LatestResult(7, TRUE, <<"not a date">>, 200),
     LatestResult(7, FALSE, NoneTs, 185),
     LatestResult(0, TRUE, <<"T1", "Z">>, 185),
     LatestResult(9, TRUE, <<"T1", "Z">>, 185)}

Responses == {Failure} \cup {Ok(q) : q \in SeqsUpTo(LatestResults, MaxBatch)}

Responses44 == {Ok(<<>>), Ok(<<LatestResult(8, TRUE, <<"T2", "Z">>, 200)>>)}

OldRow ==
    MeasurementPayload([sensor_id |-> 7, location_id |-> 42,
                        timestamp |-> <<"T1", "Z">>, value |-> 90,
                        coordinates |-> None, parameter_name |-> "pm25",
                        raw |-> "hist"])

RefreshIds == {42, 45}

InitRefresh ==
    /\ locations = {LocationPayload(LocationDict(42, Ghana, None)),
                    LocationPayload(LocationDict(43, Togo, None)),
                    LocationPayload(LocationDict(44, Ghana, None))}
    /\ sensors = {SensorPayload(SensorDict(7, "pm25"), 42),
                  SensorPayload(SensorDict(8, None), 44)}
    /\ measurements \in {<<>>, <<OldRow>>}
    /\ sensor_cache = <<>>
    /\ hist = [s \in {7, 8, 9} |-> NoHist]
    /\ \E d8 \in {"no2", "error"} :
          upDetail = (7 :> "pm25") @@ (8 :> d8) @@ (9 :> None)
    /\ \E r42 \in Responses, r44 \in Responses44 :
          upLatest = (42 :> r42) @@ (44 :> r44)
                     @@ (45 :> Ok(<<LatestResult(7, TRUE, <<"T2", "Z">>, 185)>>))
    /\ upPages = <<>>
    /\ bf = BackfillIdle
    /\ wr = WritersIdle
    /\ sch = NotStarted
    /\ rf = NoRefresh
    /\ last = [op |-> "init"]

Running == [rows |-> measurements, cache |-> sensor_cache, hist |-> hist,
            saved |-> 0, db |-> "active"]

\* POST /admin/refresh/location/{location_id}, or any other single call of
\* refresh_latest_for_location.  rerun: the operation before was the same
\* call.  changed: the call left the measurements table different.
AdminRefresh(location_id) ==
    LET r == RefreshLatestForLocation(Running, location_id)
    IN  /\ measurements' = r.st.rows
        /\ sensor_cache' = r.st.cache
        /\ hist' = r.st.hist
        /\ last' = [op |-> "refresh", location_id |-> location_id,
                    fetched |-> r.fetched, saved |-> r.st.saved,
                    ret |-> r.ret, raised |-> r.raised,
                    rerun |-> last.op = "refresh"
                              /\ last.location_id = location_id,
                    changed |-> r.st.rows # measurements,
                    cache_changed |-> r.st.cache # sensor_cache]
        /\ UNCHANGED <<locations, sensors, upstream, bf, wr, sch, rf>>

\* One run of the job refresh_all_locations.  added: the number of rows the
\* run added to the measurements table.
Tick(locs) ==
    LET t == RefreshAllLocations(Running, locs)
    IN  /\ measurements' = t.st.rows
        /\ sensor_cache' = t.st.cache
        /\ hist' = t.st.hist
        /\ last' = [op |-> "tick", visited |-> t.visited,
                    outcomes |-> t.outcomes,
                    processed |-> t.processed, with_data |-> t.with_data,
                    rerun |-> last.op = "tick",
                    changed |-> t.st.rows # measurements,
                    added |-> Len(t.st.rows) - Len(measurements)]
        /\ UNCHANGED <<locations, sensors, upstream, bf, wr, sch, rf>>

NextRefresh ==
    \/ \E locs \in GetLocations(locations, "GH", LocationLimit) : Tick(locs)
    \/ \E l \in RefreshIds : AdminRefresh(l)

SpecRefresh == InitRefresh /\ [][NextRefresh]_vars

(***************************************************************************)
(* Properties of one refresh and of repeated ticks.                        *)
(***************************************************************************)
LastResults == upLatest[last.location_id].results

\* The result is skipped by the loop: it has no sensor id, or its "datetime"
\* member is not an object.
Skipped(d) == d.sensorsId = 0 \/ ~d.datetime.isdict

\* The result has a timestamp that is missing or does not parse.
NoTimestamp(d) == d.datetime.isdict /\ ParseTs(d.datetime.utc) = None

\* The store rejects the result: its sensor or the location is not a row.
Rejected(d, location_id) ==
    \/ d.sensorsId \notin SensorIdsOf(sensors)
    \/ location_id \notin LocationIdsOf(locations)

CountOf(results, P(_)) == Cardinality({i \in 1..Len(results) : P(results[i])})

\* The row the store must hold for result i of the batch: the payload of the
\* last result of the batch that is not skipped and has the same key.
SameKey(d, e) ==
    d.sensorsId = e.sensorsId
    /\ ParseTs(d.datetime.utc) = ParseTs(e.datetime.utc)

ExpectedRow(results, i, location_id) ==
    LET same == {j \in 1..Len(results) :
                    ~Skipped(results[j]) /\ SameKey(results[j], results[i])}
        j == CHOOSE k \in same : \A m \in same : m <= k
    IN  MeasurementPayload(
            LatestMeasurement(results[j], location_id,
                              sensor_cache[results[j].sensorsId]))

Stored(results, i, location_id) ==
    LET hit == MatchingRows(measurements, results[i].sensorsId,
                            ParseTs(results[i].datetime.utc))
    IN  /\ Cardinality(hit) = 1
        /\ \A k \in hit : measurements[k] = ExpectedRow(results, i, location_id)

\* C6 as stated: with M of the N results malformed (no sensor id, a datetime
\* that is no object, or a timestamp that does not parse) and the others
\* acceptable to the store, the saved count is N - M.
C6_Original ==
    (last.op = "refresh" /\ last.fetched > 0) =>
        LET Malformed(d) == Skipped(d) \/ NoTimestamp(d)
            M == CountOf(LastResults, Malformed)
        IN  (/\ 0 < M /\ M < last.fetched
             /\ \A i \in 1..last.fetched :
                   Malformed(LastResults[i])
                   \/ ~Rejected(LastResults[i], last.location_id))
            => last.saved = last.fetched - M

\* C6 amended: in a batch of N results of which M lack a sensor id or carry
\* a datetime that is no object, and whose other results name a sensor and a
\* location of the store, the saved count is N - M, no exception leaves the
\* call, and each of the N - M results is in the store under its key, a
\* result whose timestamp is missing or does not parse under a NULL
\* timestamp.
C6_SkippedOnly ==
    (/\ last.op = "refresh" /\ last.fetched > 0
     /\ \A i \in 1..last.fetched :
           Skipped(LastResults[i]) \/ ~Rejected(LastResults[i], last.location_id))
    => /\ last.saved = last.fetched - CountOf(LastResults, Skipped)
       /\ ~last.raised
       /\ \A i \in 1..last.fetched :
             ~Skipped(LastResults[i]) => Stored(LastResults, i, last.location_id)

C6_Witness ==
    /\ last.op = "refresh" /\ last.fetched = 2 /\ last.saved = 1
    /\ Skipped(LastResults[1])
    /\ NoTimestamp(LastResults[2])
    /\ ~Rejected(LastResults[2], last.location_id)
    /\ \E k \in 1..Len(measurements) :
          measurements[k].timestamp = None /\ measurements[k].value = 200

\* C8: a tick that follows a tick, upstream answering the same, leaves the
\* measurements table as the first tick left it; and with one latest result
\* of value 18.5 at T1 for sensor 7 of location 42, after every tick exactly
\* one row has the key (7, T1), with location 42, value 18.5 and parameter
\* name pm25.
C8_TickTwice ==
    /\ (last.op = "tick" /\ last.rerun) => ~last.changed
    /\ (last.op = "tick"
         /\ upLatest[42] = Ok(<<LatestResult(7, TRUE, <<"T1", "Z">>, 185)>>))
        => LET hit == MatchingRows(measurements, 7, "T1")
           IN  /\ Cardinality(hit) = 1
               /\ \A k \in hit :
                     /\ measurements[k].location_id = 42
                     /\ measurements[k].value = 185
                     /\ measurements[k].parameter_name = "pm25"

C8_Witness ==
    /\ last.op = "tick" /\ last.rerun /\ ~last.changed
    /\ upLatest[42] = Ok(<<LatestResult(7, TRUE, <<"T1", "Z">>, 185)>>)
    /\ Len(measurements) = 2
    /\ measurements[1].value = 185

\* C18: in a refresh, whatever results the store rejected, every result
\* that has a sensor id and a datetime object and names a sensor and a
\* location of the store is counted as saved and is in the store under its
\* key: only the rejected results are missing.
C18_LaterResultsSaved ==
    (last.op = "refresh" /\ last.fetched > 0) =>
        /\ last.saved = last.fetched
               - Cardinality({i \in 1..last.fetched :
                     \/ Skipped(LastResults[i])
                     \/ Rejected(LastResults[i], last.location_id)})
        /\ \A i \in 1..last.fetched :
              (~Skipped(LastResults[i])
                  /\ ~Rejected(LastResults[i], last.location_id))
              => MatchingRows(measurements, LastResults[i].sensorsId,
                              ParseTs(LastResults[i].datetime.utc)) # {}

\* C10 as stated: the call returns the number of measurements it saved.
C10_Original == last.op = "refresh" => last.ret = <<last.saved>>

\* The session of the refresh is inactive when result i is reached: the
\* store has rejected an earlier result of the batch.
Poisoned(results, i, location_id) ==
    \E j \in 1..(i - 1) :
        ~Skipped(results[j]) /\ Rejected(results[j], location_id)

\* C10 amended: the call returns None on every path and no exception
\* leaves it; the number it saved is the count it logs.  With an empty
\* latest list, or a failed fetch, that count is 0 and the measurements
\* table is left as found; otherwise the count is smaller than the number
\* of results fetched by exactly the number of results not stored: those
\* skipped, those rejected by the store, and those that come after a
\* rejected one in the batch.
C10_SavedCount ==
    last.op = "refresh" =>
        /\ last.ret = <<>>
        /\ ~last.raised
        /\ last.fetched <= 0 => (last.saved = 0 /\ ~last.changed)
        /\ last.fetched > 0 =>
              last.fetched - last.saved =
                  Cardinality({i \in 1..last.fetched :
                      \/ Skipped(LastResults[i])
                      \/ Rejected(LastResults[i], last.location_id)
                      \/ Poisoned(LastResults, i, last.location_id)})

C10_Witness ==
    /\ last.op = "refresh" /\ last.fetched = 2 /\ last.saved = 1
    /\ ~Skipped(LastResults[1]) /\ ~Rejected(LastResults[1], last.location_id)
    /\ ~Skipped(LastResults[2]) /\ Rejected(LastResults[2], last.location_id)
    /\ last.changed

C10_WitnessEmpty ==
    /\ last.op = "refresh" /\ last.fetched = 0
    /\ Len(measurements) = 1

(***************************************************************************)
(* Runs of the backfill driver, one after another, against a provider     *)
(* that holds a fixed list of pages for sensor 7: a page fails, is empty, *)
(* or carries two records.  The store knows locations 42 and 43 and       *)
(* sensor 7; sensor 9 and location 99 are unknown to it.  The driver is a *)
(* running script: a step it can take is taken.                           *)
(***************************************************************************)
MaxPages == 3

HistoricalResults ==
    [h1 |-> HistoricalResult([kind |-> "dict", utc |-> <<"T1", "Z">>], 185,
                             [isdict |-> FALSE, id |-> 0], 0,
                             [isdict |-> TRUE, name |-> "pm25"]),
     h2 |-> HistoricalResult([kind |-> "str", utc |-> <<"T2", "Z">>], 200,
                             [isdict |-> TRUE, id |-> 42], 0,
                             [isdict |-> FALSE, name |-> None]),
     h3 |-> HistoricalResult([kind |-> "none", utc |-> NoneTs], 210,
                             [isdict |-> FALSE, id |-> 0], 99,
                             [isdict |-> TRUE, name |-> None])]

Pages ==
    {Failure, Ok(<<>>),
     Ok(<<HistoricalResults.h1, HistoricalResults.h2>>),
     Ok(<<HistoricalResults.h3, HistoricalResults.h2>>)}

BackfillSensors == {7, 9}
BackfillLocations == {42, 99}

InitBackfill ==
    /\ locations = {LocationPayload(LocationDict(42, Ghana, None)),
                    LocationPayload(LocationDict(43, Togo, None))}
    /\ sensors = {SensorPayload(SensorDict(6, "pm25"), 42),
                  SensorPayload(SensorDict(7, "pm25"), 42)}
    /\ measurements \in {<<>>, <<OldRow>>}
    /\ sensor_cache = <<>>
    /\ hist = [s \in {7, 8, 9} |-> NoHist]
    /\ upDetail = <<>>
    /\ upLatest = <<>>
    /\ \E pages \in SeqsUpTo(Pages, MaxPages) :
          upPages = (6 :> <<Ok(<<HistoricalResults.h2>>)>>) @@ (7 :> pages)
                    @@ (9 :> <<Ok(<<HistoricalResults.h1>>)>>)
    /\ bf = BackfillIdle
    /\ wr = WritersIdle
    /\ sch = NotStarted
    /\ rf = NoRefresh
    /\ last = [op |-> "init"]

NextBackfill ==
    \/ \E s \in BackfillSensors, l \in BackfillLocations : BackfillStart(s, l)
    \/ \E l \in {42, 43} : \E q \in BatchQueue(sensors, l) :
          BackfillBatchStart(q)
    \/ BackfillInterrupt
    \/ BackfillFetch
    \/ BackfillSave
    \/ BackfillNextPage
    \/ BackfillReturn

SpecBackfill ==
    /\ InitBackfill
    /\ [][NextBackfill]_vars
    /\ WF_vars(BackfillFetch)
    /\ WF_vars(BackfillSave)
    /\ WF_vars(BackfillNextPage)
    /\ WF_vars(BackfillReturn)

RECURSIVE SumSeq(_)
SumSeq(q) == IF q = <<>> THEN 0 ELSE Head(q) + SumSeq(Tail(q))

\* The page ends the run: the request fails or the page has no record.
EndsRun(resp) == resp.status = "error" \/ resp.results = <<>>

\* The number of the first page that ends the run.
FirstEnd(pages) ==
    CHOOSE k \in 1..(Len(pages) + 1) :
        /\ EndsRun(PageOf(pages, k))
        /\ \A j \in 1..(k - 1) : ~EndsRun(PageOf(pages, j))

\* The store accepts the record: its sensor and its location (the run's
\* location when the record names none) are rows of the store.
Accepted(result, sensor_id, location_id) ==
    LET named == IF result.location.isdict THEN result.location.id
                 ELSE result.location_id
    IN  /\ sensor_id \in SensorIdsOf(sensors)
        /\ (IF named = 0 THEN location_id ELSE named)
               \in LocationIdsOf(locations)

AcceptedOnPage(resp, sensor_id, location_id) ==
    Cardinality({i \in 1..Len(resp.results) :
                    Accepted(resp.results[i], sensor_id, location_id)})

\* While the driver runs, the pages requested are 1, 2, ... in order, none
\* after a page that ended the run, and total_saved is the sum of the
\* per-page counts.
BackfillRunning ==
    bf.pc # "idle" =>
        /\ bf.requested = [i \in 1..Len(bf.requested) |-> i]
        /\ bf.total_saved = SumSeq(bf.pages_saved)
                             + (IF bf.pc = "save" THEN bf.page_saved ELSE 0)
        /\ \A i \in 1..Len(bf.requested) :
              EndsRun(PageOf(upPages[bf.sensor_id], i))
                  => i = Len(bf.requested) /\ bf.pc = "commit"

\* When the driver has returned: it requested exactly the pages up to the
\* first that ended the run and returned the sum of the per-page counts
\* without raising; when page 1 ended the run it returned 0 and left the
\* table as it was.
BackfillReturned ==
    last.op = "backfill" =>
        LET k == FirstEnd(upPages[last.sensor_id])
        IN  /\ last.requested = [i \in 1..k |-> i]
            /\ Len(last.page_saved) = k - 1
            /\ ~last.raised
            /\ last.ret = <<SumSeq(last.page_saved)>>
            /\ k = 1 => last.ret = <<0>> /\ ~last.changed

\* The same for the runs in which the store rejected no record, with the
\* count of each page: the records the store accepts.
BackfillReturnedClean ==
    (last.op = "backfill" /\ ~last.raised) =>
        LET pages == upPages[last.sensor_id]
            k == FirstEnd(pages)
        IN  /\ last.requested = [i \in 1..k |-> i]
            /\ last.page_saved =
                   [i \in 1..(k - 1) |->
                       AcceptedOnPage(pages[i], last.sensor_id,
                                      last.location_id)]
            /\ last.ret = <<SumSeq(last.page_saved)>>
            /\ k = 1 => last.ret = <<0>> /\ ~last.changed

\* The driver raised: the store had rejected a record of the run.
BackfillRaised ==
    (last.op = "backfill" /\ last.raised) =>
        \E i \in 1..(FirstEnd(upPages[last.sensor_id]) - 1) :
            AcceptedOnPage(upPages[last.sensor_id][i], last.sensor_id,
                           last.location_id)
                < Len(upPages[last.sensor_id][i].results)

\* C7: a run of the historical backfill requests pages 1, 2, ... and no page
\* after the first empty one; the total it returns is the sum of the
\* per-page saved counts; with page 1 empty it returns 0 and changes
\* nothing; and every run that has started returns.
C7_Backfill ==
    /\ [](BackfillRunning /\ BackfillReturned)
    /\ (bf.pc # "idle") ~> (bf.pc = "idle")

\* A run saved records from page 1, met the empty page 2 and returned,
\* although the provider holds a non-empty page 3.
C7_Witness ==
    /\ last.op = "backfill"
    /\ last.requested = <<1, 2>>
    /\ last.ret[1] >= 1
    /\ Len(upPages[last.sensor_id]) = 3
    /\ upPages[last.sensor_id][2] = Ok(<<>>)
    /\ ~EndsRun(upPages[last.sensor_id][3])

\* A run whose page 1 is empty has returned 0.
C7_WitnessEmpty ==
    /\ last.op = "backfill"
    /\ upPages[last.sensor_id] # <<>>
    /\ upPages[last.sensor_id][1] = Ok(<<>>)
    /\ last.ret = <<0>>

\* A run returned less than the provider's pages hold: the store rejected a
\* record.
C7_WitnessRejected ==
    /\ last.op = "backfill"
    /\ last.page_saved # <<>>
    /\ last.page_saved[1] = 1

\* C11: when the last page a run requested failed, the run returns, without
\* raising, the count it saved on the pages before, the rows of the table
\* are kept, and a run made by the multi-sensor batch is followed by the
\* run of the batch's next sensor.
C11_FetchFailure ==
    (last.op = "backfill" /\ last.failed_page) =>
        /\ ~last.raised
        /\ last.ret = <<SumSeq(last.page_saved)>>
        /\ Len(measurements) >= Len(last.rows0)
        /\ (last.in_batch /\ last.pending # <<>>) =>
               /\ bf.pc = "fetch"
               /\ bf.sensor_id = last.pending[1][1]

\* One uninterrupted run of the driver on the table rows: the inner loop
\* from record i of a page, and the outer loop from page `page`.
RECURSIVE SavePage(_, _, _, _, _)
SavePage(st, ms, i, sensor_id, location_id) ==
    IF i > Len(ms) THEN st
    ELSE SavePage(BackfillRecord(st, ms[i], sensor_id, location_id), ms,
                  i + 1, sensor_id, location_id)

RECURSIVE RunFrom(_, _, _, _)
RunFrom(st, page, sensor_id, location_id) ==
    LET resp == PageOf(upPages[sensor_id], page)
    IN  IF EndsRun(resp) THEN st
        ELSE RunFrom(SavePage(st, FetchMeasurementsBySensor(resp, sensor_id),
                              1, sensor_id, location_id),
                     page + 1, sensor_id, location_id)

UninterruptedRun(rows, sensor_id, location_id) ==
    RunFrom([rows |-> rows, db |-> "active", page_saved |-> 0,
             total_saved |-> 0], 1, sensor_id, location_id).rows

\* C12: when a run of a sensor was interrupted, once or several times, and
\* the run started again from page 1 has come to its end, the measurements
\* table equals the table one uninterrupted run would have produced from
\* the table the first run found.
C12_Resumable ==
    (last.op = "backfill" /\ last.resumed) =>
        measurements = UninterruptedRun(last.origin, last.sensor_id,
                                        last.location_id)

\* The interrupted run had stored rows, and the re-run stored more.
C12_Witness ==
    /\ last.op = "backfill" /\ last.resumed
    /\ last.rows0 # last.origin
    /\ Len(measurements) > Len(last.rows0)

(***************************************************************************)
(* The ingestion paths one after another: scheduler ticks, single          *)
(* refreshes and runs of the backfill driver, none overlapping another.    *)
(* The latest endpoint and the historical pages carry the same keys: the   *)
(* reading of sensor 7 at T1, and readings of sensor 7 without a usable    *)
(* timestamp.                                                              *)
(***************************************************************************)
SeqResponses ==
    {Failure,
     Ok(<<LatestResult(7, TRUE, <<"T1", "Z">>, 185)>>),
     Ok(<<LatestResult(7, TRUE, <<"not a date">>, 200),
          LatestResult(7, TRUE, <<"T1", "Z">>, 185)>>)}

SeqPages ==
    {<<Ok(<<HistoricalResults.h1, HistoricalResults.h2>>)>>,
     <<Ok(<<[HistoricalResults.h3 EXCEPT !.location_id = 0],
            HistoricalResults.h1>>),
       Ok(<<HistoricalResults.h2>>)>>,
     <<Ok(<<HistoricalResults.h3, HistoricalResults.h2>>), Failure>>}

Init ==
    /\ locations = {LocationPayload(LocationDict(42, Ghana, None)),
                    LocationPayload(LocationDict(43, Togo, None)),
                    LocationPayload(LocationDict(44, Ghana, None))}
    /\ sensors = {SensorPayload(SensorDict(7, "pm25"), 42),
                  SensorPayload(SensorDict(8, None), 44)}
    /\ measurements \in {<<>>, <<OldRow>>}
    /\ sensor_cache = <<>>
    /\ hist = [s \in {7, 8, 9} |-> NoHist]
    /\ upDetail = (7 :> "pm25") @@ (8 :> "no2") @@ (9 :> None)
    /\ \E r42 \in SeqResponses, r44 \in Responses44 :
          upLatest = (42 :> r42) @@ (44 :> r44)
                     @@ (45 :> Ok(<<LatestResult(7, TRUE, <<"T2", "Z">>, 185)>>))
    /\ \E pages \in SeqPages :
          upPages = (7 :> pages) @@ (9 :> <<Ok(<<HistoricalResults.h1>>)>>)
    /\ bf = BackfillIdle
    /\ wr = WritersIdle
    /\ sch = NotStarted
    /\ rf = NoRefresh
    /\ last = [op |-> "init"]

Next ==
    \/ /\ bf.pc = "idle"
       /\ \E locs \in GetLocations(locations, "GH", LocationLimit) : Tick(locs)
    \/ /\ bf.pc = "idle"
       /\ \E l \in RefreshIds : AdminRefresh(l)
    \/ \E s \in BackfillSensors, l \in BackfillLocations : BackfillStart(s, l)
    \/ BackfillFetch
    \/ BackfillSave
    \/ BackfillNextPage
    \/ BackfillReturn

Spec == Init /\ [][Next]_vars

\* C2: whatever ticks, single refreshes and backfill runs have run one after
\* another, no two rows of the measurements table have the same sensor_id
\* and the same timestamp (two NULL timestamps counting as the same).
C2_OnePerKey ==
    \A i, j \in 1..Len(measurements) :
        (/\ measurements[i].sensor_id = measurements[j].sensor_id
         /\ measurements[i].timestamp = measurements[j].timestamp) => i = j

\* A tick re-ingested a reading whose key a backfill run or an earlier run
\* had stored: it changed the table without adding a row, and the table
\* holds rows of both paths.
C2_Witness ==
    /\ last.op = "tick"
    /\ last.changed
    /\ last.added = 0
    /\ \E i \in 1..Len(measurements) : measurements[i].raw = JsonDumps("hist")
    /\ \E i \in 1..Len(measurements) : measurements[i].raw = JsonDumps("latest")

(***************************************************************************)
(* Two writers in two processes, each with its own database session: the  *)
(* scheduler's refresh worker and the backfill driver, each inside         *)
(* insert_measurement.  The SELECT of line 75 and the commit of lines      *)
(* 87-98 are two statements; the other writer may run between them.        *)
(* wr[w].raced: the writer's SELECT found no row while the other writer    *)
(* had found none for the same key and had not yet written.                *)
(***************************************************************************)
MaxRows == 3

Writers == {"refresh", "backfill"}

Other(w) == CHOOSE v \in Writers : v # w

WriterInputs ==
    [refresh  |-> {LatestMeasurement(LatestResult(7, TRUE, <<"T1", "Z">>, 185),
                                     42, "pm25"),
                   LatestMeasurement(LatestResult(7, TRUE, <<"T2", "Z">>, 200),
                                     42, "pm25")},
     backfill |-> {[TransformResult(HistoricalResults.h1, 7)
                       EXCEPT !.location_id = 42],
                   [TransformResult(HistoricalResults.h3, 7)
                       EXCEPT !.location_id = 42]}]

WriterIdle == [pc |-> "idle"]

InitWriters ==
    /\ locations = {LocationPayload(LocationDict(42, Ghana, None))}
    /\ sensors = {SensorPayload(SensorDict(7, "pm25"), 42)}
    /\ measurements = <<>>
    /\ sensor_cache = <<>>
    /\ hist = [s \in {7, 8, 9} |-> NoHist]
    /\ NoUpstream
    /\ bf = BackfillIdle
    /\ wr = [w \in Writers |-> WriterIdle]
    /\ sch = NotStarted
    /\ rf = NoRefresh
    /\ last = [op |-> "init"]

\* insert_measurement lines 66-75 in writer w: the timestamp is parsed and
\* the row with the key is looked up.
WriterQuery(w, m) ==
    /\ wr[w].pc = "idle"
    /\ Len(measurements) < MaxRows
    /\ LET existing == QueryExisting(measurements, m)
           o == wr[Other(w)]
       IN  wr' = [wr EXCEPT ![w] =
                     [pc |-> "queried", m |-> m, existing |-> existing,
                      raced |-> /\ existing = 0
                                /\ o.pc = "queried"
                                /\ o.existing = 0
                                /\ o.m.sensor_id = m.sensor_id
                                /\ ParseTs(o.m.timestamp)
                                       = ParseTs(m.timestamp)]]
    /\ last' = [op |-> "query", writer |-> w]
    /\ UNCHANGED <<store, sensor_cache, hist, upstream, bf, sch, rf>>

\* insert_measurement lines 77-98 in writer w: the row found is overwritten
\* or a new row is added, and the transaction commits.
WriterWrite(w) ==
    /\ wr[w].pc = "queried"
    /\ LET r == WriteMeasurement(measurements, sensors, locations, wr[w].m,
                                 wr[w].existing)
       IN  /\ measurements' = r.rows
           /\ last' = [op |-> "write", writer |-> w, ok |-> r.ok,
                       sensor_id |-> wr[w].m.sensor_id,
                       timestamp |-> ParseTs(wr[w].m.timestamp),
                       raced |-> wr[w].raced]
    /\ wr' = [wr EXCEPT ![w] = WriterIdle]
    /\ UNCHANGED <<locations, sensors, sensor_cache, hist, upstream, bf, sch, rf>>

NextWriters ==
    \/ \E w \in Writers : \E m \in WriterInputs[w] : WriterQuery(w, m)
    \/ \E w \in Writers : WriterWrite(w)

SpecWriters == InitWriters /\ [][NextWriters]_vars

\* C3: when the two writers have both upserted the same key, both having
\* read "not exists" before either wrote, and both have returned, the table
\* holds exactly one row with that key and the second write did not fail.
C3_ConcurrentOneRecord ==
    (/\ last.op = "write" /\ last.raced
     /\ \A w \in Writers : wr[w].pc = "idle")
    => /\ last.ok
       /\ Cardinality(MatchingRows(measurements, last.sensor_id,
                                   last.timestamp)) = 1

(***************************************************************************)
(* The scheduler and the job refresh_all_locations, statement by           *)
(* statement.  The store holds two locations of Ghana and one of Togo, or  *)
(* the one of Togo alone.  The database may fail to answer the query that  *)
(* enumerates the locations and the query that counts the measurements of  *)
(* a location.                                                             *)
(***************************************************************************)
MaxFires == 3

\* add_job (line 179) is called without max_instances: the library's default.
MaxInstances == 1

\* The events of one tick, in order: a call of refresh_latest_for_location,
\* the exception logged at line 165, a time.sleep(2).
RefreshEvent(id) == [ev |-> "refresh", id |-> id]
FailedEvent(id) == [ev |-> "failed", id |-> id]
SleepEvent == [ev |-> "sleep", id |-> 0]

InitScheduler ==
    /\ locations \in {{LocationPayload(LocationDict(42, Ghana, None)),
                       LocationPayload(LocationDict(43, Togo, None)),
                       LocationPayload(LocationDict(44, Ghana, None))},
                      {LocationPayload(LocationDict(43, Togo, None))}}
    /\ sensors = {SensorPayload(SensorDict(7, "pm25"), 42),
                  SensorPayload(SensorDict(8, None), 44)}
    /\ measurements = <<>>
    /\ sensor_cache = <<>>
    /\ hist = [s \in {7, 8, 9} |-> NoHist]
    /\ upDetail = (7 :> "pm25") @@ (8 :> "no2") @@ (9 :> None)
    /\ \E r42 \in {Failure,
                   Ok(<<LatestResult(7, TRUE, <<"T1", "Z">>, 185)>>),
                   Ok(<<LatestResult(9, TRUE, <<"T1", "Z">>, 185)>>)},
          r44 \in Responses44 :
          upLatest = (42 :> r42) @@ (43 :> Ok(<<>>)) @@ (44 :> r44)
    /\ upPages = <<>>
    /\ bf = BackfillIdle
    /\ wr = WritersIdle
    /\ sch = NotStarted
    /\ rf = NoRefresh
    /\ last = [op |-> "init"]

\* start_scheduler (lines 175-181), called once by the startup event of
\* main.py: the job is added with a first run that is due at once, and the
\* scheduler is started.
StartScheduler ==
    /\ ~sch.running
    /\ sch' = [sch EXCEPT !.armed = TRUE, !.running = TRUE]
    /\ last' = [op |-> "start_scheduler"]
    /\ UNCHANGED <<store, sensor_cache, hist, upstream, bf, wr, rf>>

\* Mutant of TimerFire: the job is submitted whatever the number of its
\* executions in flight.
TimerFireAlways ==
    /\ sch.armed
    /\ sch.fires < MaxFires
    /\ sch' = [sch EXCEPT !.fires = @ + 1, !.instances = @ + 1,
                          !.started = @ + 1, !.pc = "enumerate",
                          !.locs = <<>>, !.i = 0, !.processed = 0,
                          !.with_data = 0, !.error = FALSE, !.trace = <<>>]
    /\ last' = [op |-> "fire", skipped |-> FALSE,
                        after_error |-> last.op = "tick_return" /\ last.error]
    /\ UNCHANGED <<store, sensor_cache, hist, upstream, bf, wr, rf>>

\* The trigger of the job fires (the first run, then every interval).  The
\* job is submitted to the executor unless max_instances executions of it
\* are in flight, and then this run is skipped.  An execution begins at
\* line 124.
TimerFire ==
    /\ sch.armed
    /\ sch.fires < MaxFires
    /\ IF sch.instances < MaxInstances
       THEN /\ sch' = [sch EXCEPT !.fires = @ + 1, !.instances = @ + 1,
                                  !.started = @ + 1, !.pc = "enumerate",
                                  !.locs = <<>>, !.i = 0, !.processed = 0,
                                  !.with_data = 0, !.error = FALSE,
                                  !.trace = <<>>]
            /\ last' = [op |-> "fire", skipped |-> FALSE,
                        after_error |-> last.op = "tick_return" /\ last.error]
       ELSE /\ sch' = [sch EXCEPT !.fires = @ + 1, !.skipped = @ + 1]
            /\ last' = [op |-> "fire", skipped |-> TRUE, after_error |-> FALSE]
    /\ UNCHANGED <<store, sensor_cache, hist, upstream, bf, wr, rf>>

\* Mutant of TickEnumerateFails: the error of a tick removes the job.
TickEnumerateFailsStops ==
    /\ sch.pc = "enumerate"
    /\ sch' = [sch EXCEPT !.pc = "done", !.error = TRUE, !.armed = FALSE]
    /\ UNCHANGED <<store, sensor_cache, hist, upstream, bf, wr, last, rf>>

\* Lines 125-129 and 170-171: get_locations raises (the database does not
\* answer); the outer except logs the error and the function ends.
TickEnumerateFails ==
    /\ sch.pc = "enumerate"
    /\ sch' = [sch EXCEPT !.pc = "done", !.error = TRUE]
    /\ UNCHANGED <<store, sensor_cache, hist, upstream, bf, wr, last, rf>>

\* Lines 125-137: locs is the answer of get_locations(db, "GH", 1000); with
\* no location the function returns at line 134.
TickEnumerate(locs) ==
    /\ sch.pc = "enumerate"
    /\ sch' = IF locs = <<>>
              THEN [sch EXCEPT !.pc = "done"]
              ELSE [sch EXCEPT !.pc = "refresh",
                               !.locs = [i \in DOMAIN locs |-> locs[i].id],
                               !.i = 1]
    /\ UNCHANGED <<store, sensor_cache, hist, upstream, bf, wr, last, rf>>

\* Lines 139-144: refresh_latest_for_location(loc.id) for the location at
\* position i, and locations_processed += 1.
TickRefresh ==
    /\ sch.pc = "refresh"
    /\ \E id \in {sch.locs[sch.i]} :
          \E r \in {RefreshLatestForLocation(Running, id)} :
             /\ measurements' = r.st.rows
             /\ sensor_cache' = r.st.cache
             /\ hist' = r.st.hist
             /\ sch' = [sch EXCEPT !.pc = "count", !.processed = @ + 1,
                                   !.trace = Append(@, RefreshEvent(id))]
    /\ UNCHANGED <<locations, sensors, upstream, bf, wr, last, rf>>

\* The position after the body of the loop for location i.
NextLocation(t) ==
    IF t.i < Len(t.locs) THEN [t EXCEPT !.pc = "refresh", !.i = @ + 1]
    ELSE [t EXCEPT !.pc = "done"]

\* Mutant of TickCount: a failure of the count query ends the loop.
TickCountAborts(fails) ==
    /\ sch.pc = "count"
    /\ LET id == sch.locs[sch.i]
           count == MeasurementCount(measurements, id)
           counted == [sch EXCEPT !.with_data = @ + IF count > 0 THEN 1 ELSE 0]
       IN  sch' = IF fails
                  THEN [sch EXCEPT !.pc = "done",
                                   !.trace = Append(@, FailedEvent(id))]
                  ELSE IF sch.i < Len(sch.locs)
                  THEN [counted EXCEPT !.pc = "sleep"]
                  ELSE NextLocation(counted)
    /\ UNCHANGED <<store, sensor_cache, hist, upstream, bf, wr, last, rf>>

\* Lines 147-165: the count of the measurements of the location on a
\* session of its own.  fails: the query raises; the except of line 164
\* logs it and the loop goes to the next location.  Otherwise the counter
\* locations_with_data is updated and, when the location is not the last,
\* line 162 is reached.
TickCount(fails) ==
    /\ sch.pc = "count"
    /\ LET id == sch.locs[sch.i]
           count == MeasurementCount(measurements, id)
           counted == [sch EXCEPT !.with_data = @ + IF count > 0 THEN 1 ELSE 0]
       IN  sch' = IF fails
                  THEN NextLocation([sch EXCEPT
                                        !.trace = Append(@, FailedEvent(id))])
                  ELSE IF sch.i < Len(sch.locs)
                  THEN [counted EXCEPT !.pc = "sleep"]
                  ELSE NextLocation(counted)
    /\ UNCHANGED <<store, sensor_cache, hist, upstream, bf, wr, last, rf>>

\* Line 162: time.sleep(2), and the loop goes to the next location.
TickSleep ==
    /\ sch.pc = "sleep"
    /\ sch' = NextLocation([sch EXCEPT !.trace = Append(@, SleepEvent)])
    /\ UNCHANGED <<store, sensor_cache, hist, upstream, bf, wr, last, rf>>

\* Lines 167-173 (and 134): the function returns and the executor has one
\* execution less of the job in flight.
TickReturn ==
    /\ sch.pc = "done"
    /\ sch' = [sch EXCEPT !.pc = "idle", !.instances = @ - 1]
    /\ last' = [op |-> "tick_return", locs |-> sch.locs, trace |-> sch.trace,
                error |-> sch.error, processed |-> sch.processed,
                with_data |-> sch.with_data, tick |-> sch.started,
                stored |-> {l.id : l \in locations}]
    /\ UNCHANGED <<store, sensor_cache, hist, upstream, bf, wr, rf>>

TickStep ==
    \/ TickEnumerateFails
    \/ \E locs \in GetLocations(locations, "GH", LocationLimit) :
          TickEnumerate(locs)
    \/ TickRefresh
    \/ \E fails \in BOOLEAN : TickCount(fails)
    \/ TickSleep
    \/ TickReturn

NextScheduler ==
    \/ StartScheduler
    \/ TimerFire
    \/ TickStep

\* Every statement of a running tick returns (every call of the source
\* client returns or times out), and the clock of the trigger advances.
SpecScheduler ==
    /\ InitScheduler
    /\ [][NextScheduler]_vars
    /\ WF_vars(StartScheduler)
    /\ WF_vars(TimerFire)
    /\ WF_vars(TickStep)

\* The locations refresh_latest_for_location was called for, in order.
RECURSIVE Refreshed(_)
Refreshed(trace) ==
    IF trace = <<>> THEN <<>>
    ELSE IF Head(trace).ev = "refresh"
    THEN <<Head(trace).id>> \o Refreshed(Tail(trace))
    ELSE Refreshed(Tail(trace))

\* C13: no more than one execution of refresh_all_locations is in flight,
\* and a fire of the trigger starts one only when none is.
C13_OneTickInFlight ==
    /\ sch.instances <= 1
    /\ (sch.pc = "idle") <=> (sch.instances = 0)

\* The trigger fired during a tick and the run was skipped.
C13_Witness ==
    /\ last.op = "fire"
    /\ last.skipped
    /\ sch.pc \in {"refresh", "count", "sleep"}
    /\ sch.instances = 1

\* C14: a tick that enumerated its locations has called
\* refresh_latest_for_location once for each of them, in the order of the
\* enumeration, whatever failed for the locations before.
C14_EveryLocationOnce ==
    (last.op = "tick_return" /\ ~last.error)
    => Refreshed(last.trace) = last.locs

\* A tick of two locations for the first of which the count query raised.
C14_Witness ==
    /\ last.op = "tick_return"
    /\ Len(last.locs) = 2
    /\ FailedEvent(last.locs[1]) \in {last.trace[k] : k \in DOMAIN last.trace}
    /\ Refreshed(last.trace) = last.locs

\* A tick of two locations for the first of which the fetch failed.
C14_WitnessFetch ==
    /\ last.op = "tick_return"
    /\ last.locs = <<42, 44>>
    /\ upLatest[42].status = "error"
    /\ Refreshed(last.trace) = last.locs

ErroredTick(n) ==
    /\ last.op = "tick_return"
    /\ last.error
    /\ sch.pc = "idle"
    /\ sch.started = n
    /\ sch.fires < MaxFires

\* C15: a started tick returns, and after a tick that ended with an error
\* the trigger fires and starts the next tick.
C15_TickReturns ==
    /\ (sch.pc # "idle") ~> (sch.pc = "idle")
    /\ \A n \in 1..MaxFires : ErroredTick(n) ~> (sch.started = n + 1)

\* A tick has started after a tick that ended with an error.
C15_Witness ==
    /\ last.op = "fire"
    /\ ~last.skipped
    /\ last.after_error
    /\ sch.pc = "enumerate"

\* Between two calls of refresh_latest_for_location there is a sleep, and
\* there is none after the last call.
Paced(trace) ==
    /\ \A j, k \in DOMAIN trace :
          (j < k /\ trace[j].ev = "refresh" /\ trace[k].ev = "refresh")
          => \E m \in (j + 1)..(k - 1) : trace[m] = SleepEvent
    /\ \A m \in DOMAIN trace :
          trace[m] = SleepEvent
          => \E k \in (m + 1)..Len(trace) : trace[k].ev = "refresh"

\* C19: the calls of refresh_latest_for_location of a tick are paced.
C19_Paced == last.op = "tick_return" => Paced(last.trace)

\* The same for the ticks in which no count query raised.
PacedWithoutFailure ==
    (/\ last.op = "tick_return"
     /\ \A k \in DOMAIN last.trace : last.trace[k].ev # "failed")
    => Paced(last.trace)

\* The ids of the locations refresh_latest_for_location was called for.
RefreshedIds == {last.trace[k].id : k \in {j \in DOMAIN last.trace :
                                              last.trace[j].ev = "refresh"}}

\* The ids of the stored locations of Ghana.
GhanaIds == {l.id : l \in {x \in locations : x.country_code = "GH"}}

C20_WitnessNone ==
    /\ last.op = "tick_return"
    /\ ~last.error
    /\ last.stored = {43}
    /\ RefreshedIds = {}

(***************************************************************************)
(* The aggregate outcome a tick logs at line 167.                          *)
(***************************************************************************)
\* The positions of the tick's locations whose refresh saved a measurement.
Yielded == {k \in DOMAIN last.outcomes : last.outcomes[k].saved > 0}

\* C21: the tick reports as processed the locations whose refresh
\* returned without raising (in a tick where no count query raises, all of
\* them), and as having data the locations whose refresh saved at least
\* one measurement in this tick.
C21_AggregateOutcome ==
    last.op = "tick"
    => /\ last.processed = Len(last.outcomes)
       /\ last.with_data = Cardinality(Yielded)

\* What line 167 reports: the locations refresh_latest_for_location was
\* called for, and those of them that have a row in the measurements table.
ReportedOutcome ==
    last.op = "tick"
    => /\ last.processed = Len(last.visited)
       /\ last.with_data =
             Cardinality({k \in DOMAIN last.visited :
                             MeasurementCount(measurements, last.visited[k]) > 0})

(***************************************************************************)
(* get_measurements_by_sensor and the records without a timestamp.         *)
(***************************************************************************)
\* crud/openaq.py line 114: limit: int = 100.
MeasurementLimit == 100

\* The order of the timestamp column: NULL sorts as the largest value.
TsRank(ts) == IF ts = None THEN 3 ELSE IF ts = "T2" THEN 2 ELSE 1

\* crud/openaq.py lines 114-120.  start, end: None when the bound is not
\* given.  A comparison with a NULL timestamp is not true, so the row is
\* filtered out.  The answer is every sequence the ORDER BY allows.
GetMeasurementsBySensor(rows, sensor_id, start, end, limit) ==
    LET match == {i \in 1..Len(rows) :
                     /\ rows[i].sensor_id = sensor_id
                     /\ start # None
                           => /\ rows[i].timestamp # None
                              /\ TsRank(rows[i].timestamp) >= TsRank(start)
                     /\ end # None
                           => /\ rows[i].timestamp # None
                              /\ TsRank(rows[i].timestamp) <= TsRank(end)}
        n == Cardinality(match)
        sorted == {q \in [1..n -> match] :
                      /\ \A i, j \in 1..n : i # j => q[i] # q[j]
                      /\ \A i, j \in 1..n :
                            i < j => TsRank(rows[q[i]].timestamp)
                                       >= TsRank(rows[q[j]].timestamp)}
    IN  {[k \in 1..Min(n, limit) |-> rows[q[k]]] : q \in sorted}

\* The records of the last pair of upserts that have no timestamp.
NullRecords == {x \in {last.a, last.b} : ParseTs(x.timestamp) = None}

\* No query with a start or an end returns a row without a timestamp.
RangeExcludesNull ==
    \A start, end \in {None, "T1", "T2"} :
       (start # None \/ end # None)
       => \A q \in GetMeasurementsBySensor(measurements, 7, start, end,
                                           MeasurementLimit) :
             \A k \in DOMAIN q : q[k].timestamp # None

\* The query without bounds returns the rows without a timestamp too.
UnboundedIncludesNull ==
    \A q \in GetMeasurementsBySensor(measurements, 7, None, None,
                                      MeasurementLimit) :
       {q[k] : k \in DOMAIN q} = RowSet(measurements)

\* C22: after two upserts, every ingested record without a usable
\* timestamp is a row of the table with a NULL timestamp, and no query with
\* a bound returns such a row.
C22_NullTimestampRetained ==
    /\ (last.op = "pair" /\ last.ok)
       => \A x \in NullRecords :
             \E i \in 1..Len(measurements) :
                measurements[i] = MeasurementPayload(x)
    /\ RangeExcludesNull

(***************************************************************************)
(* backfill_locations (app/utils/backfill.py) and direct calls of          *)
(* upsert_sensor, on an empty store.  An element of a page of              *)
(* GET /locations is the location dict, its "sensors" member (<<>> when    *)
(* absent or empty) and what GET /locations/{id} answers for it.           *)
(***************************************************************************)
PageItem(loc, ss, detail) ==
    [loc |-> loc, sensors |-> ss, detail |-> detail]

NoId == [id |-> 0, name |-> "sensor", parameter |-> NoParameter]

PageItems ==
    {PageItem(LocationDict(42, Ghana, None), <<SensorDict(7, "pm25")>>,
              Failure),
     PageItem(LocationDict(44, Ghana, None), <<>>,
              Ok(<<SensorDict(8, "no2")>>)),
     PageItem(LocationDict(44, Ghana, None), <<>>, Failure),
     PageItem([LocationDict(43, Ghana, None) EXCEPT !.coordinates = None],
              <<SensorDict(9, "pm25")>>, Failure),
     PageItem(LocationDict(42, Ghana, None),
              <<NoId, SensorDict(7, "pm25")>>, Failure)}

LocationPages ==
    {<<Ok(<<x, y>>)>> : x, y \in PageItems}
    \cup {<<Ok(<<x>>), Ok(<<y>>)>> : x, y \in PageItems}
    \cup {<<Ok(<<x>>), Failure, Ok(<<y>>)>> : x, y \in PageItems}

\* lines 24-31: the sensors of the location; the detail endpoint is asked
\* when the page gives none, and a failure there gives no sensor.
SensorsOf(item) ==
    IF item.sensors # <<>> THEN item.sensors
    ELSE IF item.detail.status = "error" THEN <<>>
    ELSE item.detail.results

\* lines 32-33 from sensor j on.  st: the two tables, raised (an exception
\* left the loop), and the history of the upserts that returned.
RECURSIVE UpsertSensors(_, _, _, _)
UpsertSensors(st, ss, j, location_id) ==
    IF j > Len(ss) THEN st
    ELSE LET r == UpsertSensor(st.sens, st.locs, ss[j], location_id)
         IN  IF ~r.ok THEN [st EXCEPT !.raised = TRUE]
             ELSE UpsertSensors(
                      [st EXCEPT !.sens = r.tbl,
                                 !.trace = Append(@, [ev |-> "sensor",
                                                      id |-> ss[j].id,
                                                      location_id |-> location_id])],
                      ss, j + 1, location_id)

\* lines 21-34 from element i of the page on.  Nothing catches an exception
\* of upsert_location or of upsert_sensor.
RECURSIVE BackfillPage(_, _, _)
BackfillPage(st, results, i) ==
    IF i > Len(results) \/ st.raised THEN st
    ELSE LET loc == results[i].loc
             r == UpsertLocation(st.locs, loc)
         IN  IF ~r.ok THEN [st EXCEPT !.raised = TRUE]
             ELSE BackfillPage(
                      UpsertSensors(
                          [st EXCEPT !.locs = r.tbl,
                                     !.trace = Append(@, [ev |-> "location",
                                                          id |-> loc.id,
                                                          location_id |-> loc.id])],
                          SensorsOf(results[i]), 1, loc.id),
                      results, i + 1)

\* lines 15-37 from page `page` on: fetch_locations raising leaves the
\* function, an empty page ends the loop.
RECURSIVE BackfillLocationsFrom(_, _, _)
BackfillLocationsFrom(st, pages, page) ==
    LET resp == PageOf(pages, page)
    IN  IF resp.status = "error" THEN [st EXCEPT !.raised = TRUE]
        ELSE IF resp.results = <<>> THEN st
        ELSE LET done == BackfillPage(st, resp.results, 1)
             IN  IF done.raised THEN done
                 ELSE BackfillLocationsFrom(done, pages, page + 1)

\* backfill_locations(country, limit) when the provider has the pages
\* `pages`.
BackfillLocationsRun(locs, sens, pages) ==
    BackfillLocationsFrom([locs |-> locs, sens |-> sens, raised |-> FALSE,
                           trace |-> <<>>],
                          pages, 1)

BackfillLocationsStep(pages) ==
    \E r \in {BackfillLocationsRun(locations, sensors, pages)} :
       /\ locations' = r.locs
       /\ sensors' = r.sens
       /\ last' = [op |-> "backfill_locations", pages |-> pages,
                   raised |-> r.raised, trace |-> r.trace]
       /\ UNCHANGED <<measurements, sensor_cache, hist, upstream, bf, wr, sch, rf>>

NextLocations ==
    \/ \E pages \in LocationPages : BackfillLocationsStep(pages)
    \/ \E sensor \in SensorInputs, l \in {42, 43} : UpsertSensorStep(sensor, l)

SpecLocations == InitMeta /\ [][NextLocations]_vars

\* C23: every Sensor row names a Location row of the store, and
\* backfill_locations upserts a sensor only after the upsert of its location.
C23_SensorHasLocation ==
    /\ \A s \in sensors : s.location_id \in LocationIdsOf(locations)
    /\ last.op = "backfill_locations"
       => \A k \in DOMAIN last.trace :
             last.trace[k].ev = "sensor"
             => \E j \in 1..(k - 1) :
                   /\ last.trace[j].ev = "location"
                   /\ last.trace[j].id = last.trace[k].location_id

\* backfill_locations has stored a location and its sensor.
C23_Witness ==
    /\ last.op = "backfill_locations"
    /\ ~last.raised
    /\ \E s \in sensors : s.id = 8 /\ s.location_id = 44
    /\ \E s \in sensors : s.id = 7 /\ s.location_id = 42

\* upsert_sensor was called for a location that is not stored.
C23_WitnessRejected ==
    /\ last.op = "upsert_sensor"
    /\ ~last.ok
    /\ last.arg[2] \notin LocationIdsOf(locations)

\* The elements of the pages the run meets before an empty page or a failed
\* page request.
RECURSIVE ItemsFrom(_, _)
ItemsFrom(pages, page) ==
    LET resp == PageOf(pages, page)
    IN  IF resp.status = "error" \/ resp.results = <<>> THEN {}
        ELSE {resp.results[i] : i \in DOMAIN resp.results}
             \cup ItemsFrom(pages, page + 1)

\* C26: a failure of the detail request or of an upsert stays with its
\* item: the run does not raise for it, and every other location of the
\* pages is stored, with its sensors.
C26_FailureContained ==
    last.op = "backfill_locations"
    => /\ last.raised => \E p \in DOMAIN last.pages :
                            last.pages[p].status = "error"
       /\ \A item \in ItemsFrom(last.pages, 1) :
             item.loc.coordinates # None
             => /\ item.loc.id \in LocationIdsOf(locations)
                /\ \A k \in DOMAIN SensorsOf(item) :
                      SensorsOf(item)[k].id # 0
                      => SensorsOf(item)[k].id \in SensorIdsOf(sensors)

\* The same for the failures of the detail request alone.
DetailFailureContained ==
    (/\ last.op = "backfill_locations"
     /\ \A p \in DOMAIN last.pages : last.pages[p].status # "error"
     /\ \A item \in ItemsFrom(last.pages, 1) :
           /\ item.loc.coordinates # None
           /\ \A k \in DOMAIN item.sensors : item.sensors[k].id # 0)
    => /\ ~last.raised
       /\ \A item \in ItemsFrom(last.pages, 1) :
             item.loc.id \in LocationIdsOf(locations)

(***************************************************************************)
(* The parameter cache against the store and the provider.                 *)
(***************************************************************************)
\* C24: a call of get_sensor_parameter_name returns what the same call
\* returns with sensor_cache cleared.
C24_ColdCacheSame == last.op = "resolve" => last.name = last.cold

\* The same for the calls that do not find the sensor in the cache.
ColdCacheSameOnMiss ==
    (last.op = "resolve" /\ ~last.hit) => last.name = last.cold

RecordsOfPage(page) ==
    FetchMeasurementsBySensor(PageOf(upPages[bf.sensor_id], page),
                              bf.sensor_id)

\* C25: the pages requested so far are 1, 2, ... in order; the next page
\* is requested when every record of the page before has been passed to
\* insert_measurement; an empty or failed page is the last one requested.
C25_PagesInOrder ==
    bf.pc # "idle"
    => /\ bf.requested = [k \in 1..Len(bf.requested) |-> k]
       /\ bf.pc = "fetch"
          => /\ bf.page = Len(bf.requested) + 1
             /\ bf.page > 1
                => /\ bf.measurements = RecordsOfPage(bf.page - 1)
                   /\ bf.i = Len(bf.measurements) + 1
       /\ bf.pc = "save"
          => /\ bf.page = Len(bf.requested)
             /\ bf.measurements = RecordsOfPage(bf.page)
             /\ bf.i \in 1..(Len(bf.measurements) + 1)
       /\ bf.pc = "commit" => bf.page = Len(bf.requested)
       /\ \A k \in 1..Len(bf.requested) :
             EndsRun(PageOf(upPages[bf.sensor_id], k))
             => k = Len(bf.requested) /\ bf.pc = "commit"

\* Page 3 is about to be requested after two pages of records.
C25_Witness ==
    /\ bf.pc = "fetch"
    /\ bf.page = 3
    /\ bf.requested = <<1, 2>>
    /\ Len(bf.measurements) >= 1

\* The run has left its loop at a failed request of page 2.
C25_WitnessFailure ==
    /\ bf.pc = "commit"
    /\ bf.requested = <<1, 2>>
    /\ PageOf(upPages[bf.sensor_id], 2).status = "error"
    /\ Len(upPages[bf.sensor_id]) = 3

(***************************************************************************)
(* A refresh whose fetch_location_latest raises.                           *)
(***************************************************************************)
\* C28: a refresh whose fetch raised lets no exception out, saves nothing
\* and leaves the measurements table and sensor_cache as they were; a tick
\* counts the location of such a refresh as processed.
C28_FetchFailureFrame ==
    /\ (last.op = "refresh" /\ last.fetched = -1)
       => /\ ~last.raised
          /\ last.saved = 0
          /\ ~last.changed
          /\ ~last.cache_changed
    /\ (last.op = "tick"
        /\ \E k \in DOMAIN last.outcomes : last.outcomes[k].fetched = -1)
       => /\ last.processed = Len(last.visited)
          /\ \A k \in DOMAIN last.outcomes :
                last.outcomes[k].fetched = -1 => last.outcomes[k].saved = 0

\* A tick of two locations, the fetch failing for the first of them.
C28_Witness ==
    /\ last.op = "tick"
    /\ last.visited = <<42, 44>>
    /\ last.outcomes[1].fetched = -1
    /\ last.outcomes[2].saved = 1
    /\ last.processed = 2

\* A single refresh whose fetch failed, on a table that holds a row and
\* a cache that holds an entry.
C28_WitnessRefresh ==
    /\ last.op = "refresh"
    /\ last.fetched = -1
    /\ measurements # <<>>
    /\ sensor_cache # <<>>

(***************************************************************************)
(* refresh_latest_for_location statement by statement, called by the       *)
(* scheduler's thread and by a request thread of the admin endpoint.  The  *)
(* two threads share the store, the provider and sensor_cache; each has a  *)
(* session of its own.  Nothing in the code orders them.                   *)
(***************************************************************************)
InitConcurrent ==
    /\ locations = {LocationPayload(LocationDict(42, Ghana, None)),
                    LocationPayload(LocationDict(44, Ghana, None))}
    /\ sensors = {SensorPayload(SensorDict(7, "pm25"), 42),
                  SensorPayload(SensorDict(8, None), 44)}
    /\ measurements = <<>>
    /\ sensor_cache = <<>>
    /\ hist = [s \in {7, 8, 9} |-> NoHist]
    /\ \E d8 \in {"no2", "error"} :
          upDetail = (7 :> "pm25") @@ (8 :> d8) @@ (9 :> None)
    /\ \E r42 \in {Failure,
                   Ok(<<LatestResult(7, TRUE, <<"T1", "Z">>, 185)>>),
                   Ok(<<LatestResult(9, TRUE, <<"T1", "Z">>, 185),
                        LatestResult(7, TRUE, <<"T1", "Z">>, 185)>>)} :
          upLatest = (42 :> r42)
                     @@ (44 :> Ok(<<LatestResult(8, TRUE, <<"T2", "Z">>, 200)>>))
    /\ upPages = <<>>
    /\ bf = BackfillIdle
    /\ wr = WritersIdle
    /\ sch = NotStarted
    /\ rf = NoRefresh
    /\ last = [op |-> "init"]

\* The cache without the entry of one sensor.
Without(cache, sensor_id) ==
    [x \in DOMAIN cache \ {sensor_id} |-> cache[x]]

\* lines 60-62: caller c enters refresh_latest_for_location(location_id).
\* names: the parameter names the call has resolved, per sensor.
RefreshBegin(c, location_id) ==
    /\ rf[c].pc = "idle"
    /\ rf' = [rf EXCEPT ![c] = [pc |-> "fetch", location_id |-> location_id,
                                results |-> <<>>, i |-> 0, saved |-> 0,
                                db |-> "active", name |-> None,
                                names |-> <<>>]]
    /\ UNCHANGED <<store, sensor_cache, hist, upstream, bf, wr, sch, last>>

\* lines 63-72: fetch_location_latest; an exception or an empty list ends
\* the call.
RefreshFetch(c) ==
    /\ rf[c].pc = "fetch"
    /\ LET resp == upLatest[rf[c].location_id]
       IN  rf' = IF resp.status = "error" \/ resp.results = <<>>
                 THEN [rf EXCEPT ![c].pc = "done"]
                 ELSE [rf EXCEPT ![c].pc = "lookup",
                                 ![c].results = resp.results, ![c].i = 1]
    /\ UNCHANGED <<store, sensor_cache, hist, upstream, bf, wr, sch, last>>

\* The position after the loop body for result i.
NextResult(r) ==
    IF r.i < Len(r.results) THEN [r EXCEPT !.pc = "lookup", !.i = @ + 1]
    ELSE [r EXCEPT !.pc = "done"]

\* lines 73-88 and 23-26: the next result; one without sensor id is
\* skipped; the name of a cached sensor is returned from sensor_cache.
RefreshLookup(c) ==
    /\ rf[c].pc = "lookup"
    /\ LET d == rf[c].results[rf[c].i]
           s == d.sensorsId
       IN  IF s = 0
           THEN /\ rf' = [rf EXCEPT ![c] = NextResult(@)]
                /\ UNCHANGED hist
           ELSE IF s \in DOMAIN sensor_cache
           THEN /\ rf' = [rf EXCEPT ![c].pc = "insert",
                                    ![c].name = sensor_cache[s],
                                    ![c].names = (s :> sensor_cache[s]) @@ @]
                /\ hist' = Recorded(hist, s,
                                    [name |-> sensor_cache[s],
                                     fetched |-> FALSE], upDetail[s])
           ELSE /\ rf' = [rf EXCEPT ![c].pc = "query"]
                /\ UNCHANGED hist
    /\ UNCHANGED <<store, sensor_cache, upstream, bf, wr, sch, last>>

\* lines 29-35 and 55-58: the sensor was not in the cache at line 24.  The
\* query of the sensors table; a name found is cached and returned; on a
\* session in a rolled-back transaction the query raises and "unknown" is
\* cached and returned.
RefreshQuery(c) ==
    /\ rf[c].pc = "query"
    /\ LET s == rf[c].results[rf[c].i].sensorsId
           r == GetSensorParameterName(rf[c].db, Without(sensor_cache, s),
                                       sensors, upDetail[s], s)
       IN  IF r.tier = "api"
           THEN /\ rf' = [rf EXCEPT ![c].pc = "detail"]
                /\ UNCHANGED <<sensor_cache, hist>>
           ELSE /\ rf' = [rf EXCEPT ![c].pc = "insert", ![c].name = r.name,
                                    ![c].names = (s :> r.name) @@ @]
                /\ sensor_cache' = Cached(sensor_cache, s, r.name)
                /\ hist' = Recorded(hist, s, r, upDetail[s])
    /\ UNCHANGED <<store, upstream, bf, wr, sch, last>>

\* lines 37-58: fetch_sensor_detail; the name it gives, or "unknown", is
\* written to sensor_cache and returned.
RefreshDetail(c) ==
    /\ rf[c].pc = "detail"
    /\ LET s == rf[c].results[rf[c].i].sensorsId
           r == GetSensorParameterName(rf[c].db, Without(sensor_cache, s),
                                       sensors, upDetail[s], s)
       IN  /\ rf' = [rf EXCEPT ![c].pc = "insert", ![c].name = r.name,
                               ![c].names = (s :> r.name) @@ @]
           /\ sensor_cache' = Cached(sensor_cache, s, r.name)
           /\ hist' = Recorded(hist, s, r, upDetail[s])
    /\ UNCHANGED <<store, upstream, bf, wr, sch, last>>

\* lines 90-113: the measurement is built and inserted; a "datetime" that
\* is no dict, or a failed insert, skips the result.
RefreshInsert(c) ==
    /\ rf[c].pc = "insert"
    /\ LET d == rf[c].results[rf[c].i]
       IN  IF ~d.datetime.isdict
           THEN /\ rf' = [rf EXCEPT ![c] = NextResult(@)]
                /\ UNCHANGED measurements
           ELSE \E w \in {InsertMeasurementIn(
                              rf[c].db, measurements, sensors, locations,
                              LatestMeasurement(d, rf[c].location_id,
                                                rf[c].name))} :
                   /\ measurements' = w.rows
                   /\ rf' = [rf EXCEPT ![c] =
                                NextResult([@ EXCEPT
                                    !.db = w.db,
                                    !.saved = @ + IF w.ok THEN 1 ELSE 0])]
    /\ UNCHANGED <<locations, sensors, sensor_cache, hist, upstream, bf, wr,
                   sch, last>>

\* lines 115-121: the call returns; names is kept until the caller's next
\* call.
RefreshReturn(c) ==
    /\ rf[c].pc = "done"
    /\ rf' = [rf EXCEPT ![c] = [pc |-> "idle", names |-> rf[c].names]]
    /\ last' = [op |-> "refresh_return", caller |-> c,
                location_id |-> rf[c].location_id, saved |-> rf[c].saved]
    /\ UNCHANGED <<store, sensor_cache, hist, upstream, bf, wr, sch>>

NextConcurrent ==
    \/ \E c \in Callers, l \in {42, 44} : RefreshBegin(c, l)
    \/ \E c \in Callers : RefreshFetch(c)
    \/ \E c \in Callers : RefreshLookup(c)
    \/ \E c \in Callers : RefreshQuery(c)
    \/ \E c \in Callers : RefreshDetail(c)
    \/ \E c \in Callers : RefreshInsert(c)
    \/ \E c \in Callers : RefreshReturn(c)
    \/ \E o \in {"no2", "pm25", "error"} : DetailChanges(8, o)

SpecConcurrent == InitConcurrent /\ [][NextConcurrent]_vars

InFlight == {c \in Callers : rf[c].pc # "idle"}

\* C29: at most one execution of refresh_latest_for_location is in flight.
C29_OneRefreshInFlight == Cardinality(InFlight) <= 1

\* The names the callers' last calls resolved for the sensor.
NamesOf(sensor_id) ==
    {rf[c].names[sensor_id] :
        c \in {x \in Callers : /\ "names" \in DOMAIN rf[x]
                               /\ sensor_id \in DOMAIN rf[x].names}}

\* C30: for a sensor two refreshes resolve, fetch_sensor_detail is called
\* at most once, the refreshes get the same name, and the cache holds it.
C30_OneFetchOneName ==
    \A s \in {8, 9} :
       /\ hist[s].fetches <= 1
       /\ Cardinality(NamesOf(s)) <= 1
       /\ (s \in DOMAIN sensor_cache /\ NamesOf(s) # {})
          => NamesOf(s) = {sensor_cache[s]}

\* When no call is mid-way and no sensor was fetched twice, the cache entry
\* of a sensor is a name some call resolved.
OneFetchOneNameSequential ==
    (\A c \in Callers : rf[c].pc \in {"idle", "done"}
                        /\ hist[8].fetches <= 1 /\ hist[9].fetches <= 1)
    => \A s \in {8, 9} :
          (s \in DOMAIN sensor_cache /\ NamesOf(s) # {})
          => sensor_cache[s] \in NamesOf(s)

====
